---- MODULE Spec2Model ----
(***************************************************************************)
(* droid2api: credential pool (auth.js), resilient dispatcher and request  *)
(* handlers (routes.js), and the vendor-B streaming response transformer   *)
(* (transformers/response-openai.js).                                      *)
(*                                                                         *)
(* JavaScript runs every handler to its next `await` without interruption, *)
(* so one action is one synchronous segment of one request: the code from  *)
(* one suspension point to the next.  Requests interleave only at awaits.  *)
(*                                                                         *)
(* One request is followed through its handler and its dispatch.  All the  *)
(* other requests in flight, however many, are seen through what they do   *)
(* to the module state of auth.js, which is all they share with it: each   *)
(* of their calls of startNewRotationCycle, rotateFactoryApiKey and        *)
(* refreshApiKey is an action that may happen between any two segments.    *)
(***************************************************************************)
EXTENDS Integers, Sequences, FiniteSets, TLC

(***************************************************************************)
(* Bounds of the model.                                                    *)
(***************************************************************************)
\* largest credential pool explored (the code accepts up to 7, MaxPoolKeys)
MaxKeys == 3
\* SSE frames upstream sends in one streaming response
MaxFrames == 3
\* SSE frames upstream sends in one streaming response that only calls tools
MaxToolFrames == 4
\* content blocks of one output item of a vendor response
MaxBlocks == 2
\* blocks of a client's `system` array
MaxSystemBlocks == 2
\* lines upstream sends when it is followed line by line
MaxLines == 6

(***************************************************************************)
(* Program constants.                                                      *)
(***************************************************************************)
\* fetchWithFallback: const maxAttempts = 10
maxAttempts == 10
\* loadAuthConfig: keyEnvNames has 7 entries
MaxPoolKeys == 7

\* convertResponseToChatCompletion: Math.floor(Date.now() / 1000)
MsPerSecond == 1000

\* the send counter of the observation stops here (one past maxAttempts)
SendCap == maxAttempts + 1

Min(a, b) == IF a < b THEN a ELSE b

\* the secrets FACTORY_API_KEY, FACTORY_API_KEY_2, ... in keyEnvNames order
KeyEnvValues == <<"k1", "k2", "k3", "k4", "k5", "k6", "k7">>

\* upstream HTTP statuses the environment may answer with
Statuses == {200, 400, 401, 402, 403, 404, 429, 500}

\* what a request looks like to the handler's validation and transform steps
RequestKinds == {"ok", "no_model", "unknown_model", "no_endpoint", "bad_transform"}

VARIABLES
  \* ---- auth.js module state ----
  authSource,             \* 'factory_key' | 'env' | 'file' | 'client'
  factoryApiKeys,         \* sequence of pool secrets
  currentApiKey,          \* access token of the refresh mechanism, or "null"
  stale,                  \* shouldRefresh(): lastRefreshTime is null or 6+ hours old
  currentKeyIndex,
  startingKeyIndex,
  hasCompletedFullCycle,
  \* ---- the request followed (handler + fetchWithFallback frame) ----
  pc,                     \* suspension point the request is parked at
  reqKind,                \* the request's shape (RequestKinds)
  authHeader,             \* fetchOptions.headers.authorization
  newAuthHeader,          \* value of the pending `await getApiKey()` in the retry branch
  attempt,                \* fetchWithFallback's `attempt`
  response,               \* the Response object of the current attempt
  result,                 \* how fetchWithFallback ended
  clientStatus,           \* status written to the client (0: nothing written yet)
  \* ---- observation of one dispatch (history, not program state) ----
  nsends,                 \* upstream sends issued by this dispatch
  tried,                  \* Authorization values this dispatch has sent
  resent,                 \* some send repeated a value already in `tried`
  rotations,              \* rotateFactoryApiKey calls of this dispatch that returned true
  rotateCalls,            \* rotateFactoryApiKey calls of this dispatch
  quotaAnswers,           \* sends answered with a quota/auth status whose error text was read
  transportFailures,      \* rejections of `await fetch` / `await responseClone.text()`
  interleaved,            \* another request changed the rotation state while this one was in flight
  fallbackReported,       \* the dispatch printed 'FALLBACK KEY SUCCESS'
  \* ---- one streaming response: OpenAIResponseTransformer and the handler's loop ----
  tr,                     \* the transformer object and the locals of transformStream
  yielded,                \* frames transformStream has yielded
  written,                \* frames the handler has written to the client (res.write)
  ended,                  \* res.end() was called
  spc,                    \* "streaming" | "finished"
  failure,                \* "none" | "source" (reading upstream failed) | "transform"
  upcoming,               \* rest of the SSE frame upstream is in the middle of sending
  framesSent,             \* SSE frames upstream has started to send
  connected,              \* the client's connection is open
  \* ---- observation of one streaming response (history, not program state) ----
  delivered,              \* the bytes upstream has delivered, all chunks joined
  decoded,                \* the text transformStream has appended to its buffer
  \* ---- one non-streaming answer: `data` and convertResponseToChatCompletion ----
  data,                   \* `await response.json()`: the vendor's JSON value
  now,                    \* Date.now()
  npc,                    \* "received" | "answered" | "repeated"
  first,                  \* outcome of the handler's call convertResponseToChatCompletion(data)
  second,                 \* outcome of one more call on the same data
  dataAfter,              \* `data` as the calls have left it
  jsonBody,               \* what the handler passed to res.json
  \* ---- one direct request: system prompt injection ----
  route,                  \* "messages" (/v1/messages) | "responses" (/v1/responses)
  systemPrompt,           \* getSystemPrompt()
  clientField,            \* the request's system / instructions field as the client sent it
  outgoingField,          \* the same field of modifiedRequest
  reasoningLevel,         \* getModelReasoning(modelId)
  clientReasoning,        \* the request's thinking / reasoning field as the client sent it
  outgoingReasoning,      \* the same field of modifiedRequest
  ipc,                    \* "received" | "forwarded"
  \* ---- one call of getApiKey by a handler, and the configuration loaded ----
  refreshKeyEnv,          \* DROID_REFRESH_KEY is set and not blank
  refreshTokenFile,       \* ~/.factory/auth.json holds a refresh_token
  clientAuthorization,    \* the argument of the call
  keyOutcome,             \* how the call ended
  kpc,                    \* "idle" | "refreshing" (await refreshApiKey()) | "returned"
  \* ---- auth.js: the refresh token and the calls of refreshApiKey in flight ----
  currentRefreshToken,    \* the refresh token the next refresh submits, or "null"
  submittedToken,         \* refresh_token in the body of the followed call's refresh, or "null"
  otherRefresh            \* the same, of a refresh another request is waiting for

authVars == <<authSource, factoryApiKeys, currentApiKey, stale,
              currentKeyIndex, startingKeyIndex, hasCompletedFullCycle>>
reqVars == <<pc, reqKind, authHeader, newAuthHeader, attempt, response, result, clientStatus>>
obsVars == <<nsends, tried, resent, rotations, rotateCalls, quotaAnswers,
             transportFailures, interleaved, fallbackReported>>
dispatchVars == <<authVars, reqVars, obsVars>>
streamVars == <<tr, yielded, written, ended, spc, failure, upcoming, framesSent,
                connected, delivered, decoded>>
normVars == <<data, now, npc, first, second, dataAfter, jsonBody>>
injectVars == <<route, systemPrompt, clientField, outgoingField,
                reasoningLevel, clientReasoning, outgoingReasoning, ipc>>
keyVars == <<refreshKeyEnv, refreshTokenFile, clientAuthorization, keyOutcome, kpc>>
refreshVars == <<currentRefreshToken, submittedToken, otherRefresh>>
pureVars == <<normVars, injectVars, keyVars, refreshVars>>
vars == <<dispatchVars, streamVars, pureVars>>

\* no refresh token, no refresh in flight
NoToken == "null"

\* refresh tokens the refresh endpoint may hand out (data.refresh_token)
RefreshTokens == {"r1", "r2"}

NoHeader == [scheme |-> "none", secret |-> ""]
Bearer(secret) == [scheme |-> "Bearer", secret |-> secret]
ClientHeader == [scheme |-> "Client", secret |-> "hdr"]

\* getApiKey has not returned
NoOutcome == [kind |-> "none", value |-> NoHeader]

NoResponse == [id |-> 0, status |-> 0, bodyUsed |-> FALSE]
NoResult == [kind |-> "none", response |-> NoResponse, error |-> ""]

PoolSize == Len(factoryApiKeys)

(***************************************************************************)
(* auth.js                                                                 *)
(***************************************************************************)
\* factoryApiKeys[i] of JavaScript: 0-based, undefined outside the array
PoolKey(i) == IF i + 1 \in DOMAIN factoryApiKeys THEN factoryApiKeys[i + 1] ELSE "undefined"

\* getApiKey, priority 1: `Bearer ${factoryApiKeys[currentKeyIndex]}`
FactoryKeyHeader == Bearer(PoolKey(currentKeyIndex))

\* mutant: the modulus is one too large
nextIndex_wrapsLate == (currentKeyIndex + 1) % (PoolSize + 1)

\* rotateFactoryApiKey: const nextIndex = (currentKeyIndex + 1) % factoryApiKeys.length
nextIndex == (currentKeyIndex + 1) % PoolSize

\* mutant: `factoryApiKeys.length < 1`
RotationImpossible_offByOne == authSource # "factory_key" \/ PoolSize < 1

\* rotateFactoryApiKey: the early return of the function
RotationImpossible == authSource # "factory_key" \/ PoolSize <= 1

\* mutant: the cycle is taken to end at the primary key, not at startingKeyIndex
rotateFactoryApiKey_endsAtPrimary ==
  IF RotationImpossible
    THEN [ret |-> FALSE, currentKeyIndex |-> currentKeyIndex,
          hasCompletedFullCycle |-> hasCompletedFullCycle]
    ELSE IF nextIndex = 0
      THEN [ret |-> FALSE, currentKeyIndex |-> currentKeyIndex,
            hasCompletedFullCycle |-> TRUE]
      ELSE [ret |-> TRUE, currentKeyIndex |-> nextIndex,
            hasCompletedFullCycle |-> hasCompletedFullCycle]

\* mutant: the end of the cycle is not detected
rotateFactoryApiKey_neverEndsCycle ==
  IF RotationImpossible
    THEN [ret |-> FALSE, currentKeyIndex |-> currentKeyIndex,
          hasCompletedFullCycle |-> hasCompletedFullCycle]
    ELSE [ret |-> TRUE, currentKeyIndex |-> nextIndex,
          hasCompletedFullCycle |-> hasCompletedFullCycle]

\* rotateFactoryApiKey: its return value and the module state it leaves
rotateFactoryApiKey ==
  IF RotationImpossible
    THEN [ret |-> FALSE, currentKeyIndex |-> currentKeyIndex,
          hasCompletedFullCycle |-> hasCompletedFullCycle]
    ELSE IF nextIndex = startingKeyIndex
      THEN [ret |-> FALSE, currentKeyIndex |-> currentKeyIndex,
            hasCompletedFullCycle |-> TRUE]
      ELSE [ret |-> TRUE, currentKeyIndex |-> nextIndex,
            hasCompletedFullCycle |-> hasCompletedFullCycle]

\* mutant: the completed cycle is not looked at
hasMoreFactoryKeys_ignoresCycle ==
  IF RotationImpossible THEN FALSE ELSE TRUE

\* hasMoreFactoryKeys
hasMoreFactoryKeys ==
  IF RotationImpossible THEN FALSE ELSE ~hasCompletedFullCycle

(***************************************************************************)
(* routes.js: fetchWithFallback                                            *)
(***************************************************************************)
isQuotaOrAuthError(statusCode) ==
  statusCode = 429 \/ statusCode = 401 \/ statusCode = 403 \/ statusCode = 402

\* mutant: the error text is read from the response itself, not from a clone
ReadErrorText_consumesBody(resp) == [resp EXCEPT !.bodyUsed = TRUE]

\* `response.clone()` then `await responseClone.text()`: the clone is read,
\* the original Response keeps its body
ReadErrorText(resp) == resp

\* mutant: the loop has no attempt limit
LoopContinues_unbounded(a) == TRUE

\* `while (attempt <= maxAttempts)`
LoopContinues(a) == a <= maxAttempts

\* `response.ok` of node-fetch
ResponseOk(resp) == resp.status >= 200 /\ resp.status < 300

\* `import { ..., didRotationOccur } from './auth.js'`: auth.js exports
\* initializeAuth, getApiKey, rotateFactoryApiKey, hasMoreFactoryKeys,
\* startNewRotationCycle and getCurrentKeyInfo, and no didRotationOccur
didRotationOccurExported == FALSE

(***************************************************************************)
(* auth.js: getApiKey(clientAuthorization), up to its first await          *)
(***************************************************************************)
\* loadAuthConfig: the authSource it sets, given the number of FACTORY_API_KEY
\* variables that are set, DROID_REFRESH_KEY and the refresh_token of auth.json
loadAuthConfig(keys, envRefreshKey, fileRefreshToken) ==
  IF keys > 0 THEN "factory_key"
  ELSE IF envRefreshKey THEN "env"
  ELSE IF fileRefreshToken THEN "file"
  ELSE "client"

\* mutant: the client's header, when there is one, comes first
getApiKey_clientFirst(header) ==
  IF header # NoHeader
    THEN [kind |-> "value", value |-> header]
  ELSE IF authSource = "factory_key" /\ PoolSize > 0
    THEN [kind |-> "value", value |-> FactoryKeyHeader]
  ELSE IF authSource = "env" \/ authSource = "file"
    THEN IF stale
           THEN [kind |-> "refresh", value |-> NoHeader]
         ELSE IF currentApiKey = "null"
           THEN [kind |-> "throw", value |-> NoHeader]
         ELSE [kind |-> "value", value |-> Bearer(currentApiKey)]
  ELSE [kind |-> "throw", value |-> NoHeader]

getApiKey(header) ==
  IF authSource = "factory_key" /\ PoolSize > 0
    THEN [kind |-> "value", value |-> FactoryKeyHeader]
  ELSE IF authSource = "env" \/ authSource = "file"
    THEN IF stale
           THEN [kind |-> "refresh", value |-> NoHeader]
         ELSE IF currentApiKey = "null"
           THEN [kind |-> "throw", value |-> NoHeader]
         ELSE [kind |-> "value", value |-> Bearer(currentApiKey)]
  ELSE IF header # NoHeader
    THEN [kind |-> "value", value |-> header]
  ELSE [kind |-> "throw", value |-> NoHeader]

(***************************************************************************)
(* transformers/response-openai.js: OpenAIResponseTransformer              *)
(*                                                                         *)
(* Text is a sequence of symbols: "\n", the line prefixes "event:" and     *)
(* "data:", an event name, and the pieces of a data payload ("{...", "}"). *)
(* String concatenation is sequence concatenation; '' is <<>>.             *)
(***************************************************************************)
NL == "\n"

\* a property that is not there (undefined)
U == "undefined"

\* eventData.item / eventData.part that is not there
NoItem == [type |-> U, id |-> U, call_id |-> U, name |-> U, arguments |-> <<>>]

\* a JSON object with none of the properties transformEvent reads
EmptyObject ==
  [t |-> "object", delta |-> <<>>, text |-> <<>>, item |-> NoItem, part |-> NoItem,
   item_id |-> U, status |-> U, response_status |-> U]

\* JSON null, and a payload that is not JSON (kept as a string)
NullValue == [EmptyObject EXCEPT !.t = "null"]
StringValue == [EmptyObject EXCEPT !.t = "string"]

(***************************************************************************)
(* The source stream of node-fetch yields Buffers.  A byte of the model is *)
(* a symbol of ASCII text, or one of the two bytes of a character that     *)
(* UTF-8 encodes in two bytes (C3 A9).  `chunk.toString()` decodes each    *)
(* chunk on its own: an incomplete sequence becomes U+FFFD.                *)
(***************************************************************************)
LeadByte == "C3"
ContinuationByte == "A9"
TwoByteCharacter == "e-acute"
ReplacementCharacter == "U+FFFD"

\* the characters a string value of the payloads can hold
Characters == {TwoByteCharacter, ReplacementCharacter}

\* chunk.toString(): Buffer.prototype.toString('utf8')
RECURSIVE chunkToString(_)
chunkToString(bytes) ==
  IF bytes = <<>> THEN <<>>
  ELSE IF Head(bytes) = LeadByte
    THEN IF Len(bytes) >= 2 /\ bytes[2] = ContinuationByte
           THEN <<TwoByteCharacter>> \o chunkToString(Tail(Tail(bytes)))
           ELSE <<ReplacementCharacter>> \o chunkToString(Tail(bytes))
  ELSE IF Head(bytes) = ContinuationByte
    THEN <<ReplacementCharacter>> \o chunkToString(Tail(bytes))
  ELSE <<Head(bytes)>> \o chunkToString(Tail(bytes))

\* payloads of the vendor events, by the symbol that opens them
JsonObjects ==
  [b \in {"{", "{delta:a", "{item:fc", "{item_id:X,delta:p", "{item_id:X,delta:q",
          "{response:completed", "{response:incomplete", "{response:failed"} |->
     CASE b = "{" -> EmptyObject
       [] b = "{delta:a" -> [EmptyObject EXCEPT !.delta = <<"a">>]
       [] b = "{item:fc" ->
            [EmptyObject EXCEPT !.item = [type |-> "function_call", id |-> "X",
                                          call_id |-> "call_X", name |-> "lookup",
                                          arguments |-> <<"p", "p">>]]
       [] b = "{item_id:X,delta:p" -> [EmptyObject EXCEPT !.item_id = "X", !.delta = <<"p">>]
       [] b = "{item_id:X,delta:q" -> [EmptyObject EXCEPT !.item_id = "X", !.delta = <<"q">>]
       [] b = "{response:completed" -> [EmptyObject EXCEPT !.response_status = "completed"]
       [] b = "{response:incomplete" -> [EmptyObject EXCEPT !.response_status = "incomplete"]
       [] b = "{response:failed" -> [EmptyObject EXCEPT !.response_status = "failed"]]

\* JSON.parse(dataStr), with the catch of parseSSELine
JSONparse(dataStr) ==
  IF dataStr = <<"null">> THEN NullValue
  ELSE IF Len(dataStr) = 2 /\ dataStr[2] = "}" /\ dataStr[1] \in DOMAIN JsonObjects
    THEN JsonObjects[dataStr[1]]
  ELSE IF /\ Len(dataStr) >= 3 /\ dataStr[1] = "{delta:\"" /\ dataStr[Len(dataStr)] = "\"}"
          /\ \A i \in 2..(Len(dataStr) - 1) : dataStr[i] \in Characters
    \* {"delta":"<characters>"}
    THEN [EmptyObject EXCEPT !.delta = SubSeq(dataStr, 2, Len(dataStr) - 1)]
  ELSE StringValue

\* line.slice(6).trim() of an event line
EventValue(rest) ==
  IF rest = <<>> THEN ""
  ELSE IF Len(rest) = 1 THEN rest[1]
  ELSE "unrecognised"

\* !line.trim()
IsBlank(line) == \A i \in 1..Len(line) : line[i] = " "

parseSSELine(line) ==
  IF Len(line) >= 1 /\ line[1] = "event:"
    THEN [type |-> "event", value |-> EventValue(Tail(line)), data |-> StringValue]
  ELSE IF Len(line) >= 1 /\ line[1] = "data:"
    THEN [type |-> "data", value |-> "", data |-> JSONparse(Tail(line))]
  ELSE [type |-> "null", value |-> "", data |-> StringValue]

\* an output frame: `data: ${JSON.stringify(chunk)}\n\n`, by the fields that vary
Frame(kind) ==
  [kind |-> kind, role |-> "absent", content |-> <<>>, finish_reason |-> "null",
   index |-> -1, id |-> "absent", type |-> "absent", name |-> "absent",
   arguments |-> <<>>]

createOpenAIChunk(content, role, finish, finishReason) ==
  [Frame("chunk") EXCEPT
     !.role = IF role # "null" THEN role ELSE "absent",
     !.content = content,
     !.finish_reason = IF finish THEN finishReason ELSE "null"]

createDoneSignal == Frame("done")

\* mutant: the later chunks of a tool call lose their arguments delta
createToolCallChunk_dropsDelta(index, toolCallId, functionName, argumentsDelta, isFirst) ==
  IF isFirst
    THEN [Frame("tool_call") EXCEPT !.index = index, !.id = toolCallId,
                                    !.type = "function", !.name = functionName,
                                    !.arguments = <<>>]
    ELSE [Frame("tool_call") EXCEPT !.index = index, !.arguments = <<>>]

createToolCallChunk(index, toolCallId, functionName, argumentsDelta, isFirst) ==
  IF isFirst
    THEN [Frame("tool_call") EXCEPT !.index = index, !.id = toolCallId,
                                    !.type = "function", !.name = functionName,
                                    !.arguments = <<>>]
    ELSE [Frame("tool_call") EXCEPT !.index = index, !.arguments = argumentsDelta]

createCompleteToolCallChunk(index, toolCallId, functionName, functionArgs) ==
  [Frame("tool_call") EXCEPT !.role = "assistant", !.index = index, !.id = toolCallId,
                             !.type = "function", !.name = functionName,
                             !.arguments = functionArgs]

\* the handler's errorEvent frame
ErrorFrame == Frame("error")

\* a || b on property values
OrElse(a, b) == IF a # U THEN a ELSE b

\* new OpenAIResponseTransformer(...), and the locals transformStream starts with
NewTransformer ==
  [buffer |-> <<>>, currentEvent |-> "", isDone |-> FALSE,
   toolCalls |-> <<>>, toolCallIndex |-> 0]

\* this.toolCalls.set(key, entry)
MapSet(m, key, entry) ==
  [k \in DOMAIN m \cup {key} |-> IF k = key THEN entry ELSE m[k]]

\* what one call of transformEvent does: the transformer it leaves, the frames
\* of the string it returns (none for null), or the TypeError it raises
Emit(t, frames) == [tr |-> t, out |-> frames, threw |-> FALSE]
Raise(t) == [tr |-> t, out |-> <<>>, threw |-> TRUE]

TextDeltaEvents ==
  {"response.output_text.delta", "response.text.delta", "response.content_part.delta"}
TextDoneEvents ==
  {"response.output_text.done", "response.text.done", "response.content_part.done"}

\* finishReason of a completion event
FinishReason(t, status) ==
  IF status = "completed"
    THEN (IF DOMAIN t.toolCalls # {} THEN "tool_calls" ELSE "stop")
  ELSE IF status = "incomplete" THEN "length"
  ELSE "stop"

transformEvent(t, eventType, eventData) ==
  IF eventType = "response.created"
    THEN Emit(t, <<createOpenAIChunk(<<>>, "assistant", FALSE, "null")>>)
  ELSE IF eventType = "response.in_progress" THEN Emit(t, <<>>)
  ELSE IF eventType \in TextDeltaEvents
    THEN IF eventData.t = "null" THEN Raise(t)
         ELSE LET text == IF eventData.delta # <<>> THEN eventData.delta ELSE eventData.text
              IN Emit(t, <<createOpenAIChunk(text, "assistant", FALSE, "null")>>)
  ELSE IF eventType \in TextDoneEvents THEN Emit(t, <<>>)
  ELSE IF /\ eventType \in {"response.content_part.added", "response.output_item.added"}
          /\ eventData.t = "null"
    THEN Raise(t)
  ELSE IF /\ eventType \in {"response.content_part.added", "response.output_item.added"}
          /\ (IF eventData.item # NoItem THEN eventData.item ELSE eventData.part).type
                = "output_text"
    THEN Emit(t, <<>>)
  ELSE IF eventType = "response.output_item.added"
    THEN LET item == eventData.item IN
         IF item.type = "function_call"
           THEN LET toolCallId == OrElse(item.call_id, OrElse(item.id, "call_now"))
                    index == t.toolCallIndex
                    name == OrElse(item.name, "")
                    entry == [index |-> index, id |-> toolCallId, name |-> name,
                              arguments |-> <<>>]
                IN Emit([t EXCEPT !.toolCallIndex = index + 1,
                                  !.toolCalls = MapSet(t.toolCalls, item.id, entry)],
                        <<createToolCallChunk(index, toolCallId, name, <<>>, TRUE)>>)
           ELSE Emit(t, <<>>)
  ELSE IF eventType = "response.function_call_arguments.delta"
    THEN IF eventData.t = "null" THEN Raise(t)
         ELSE LET itemId == eventData.item_id
                  delta == eventData.delta
              IN IF itemId \in DOMAIN t.toolCalls
                   THEN LET toolCall == t.toolCalls[itemId] IN
                        Emit([t EXCEPT !.toolCalls[itemId].arguments = @ \o delta],
                             <<createToolCallChunk(toolCall.index, toolCall.id, "null",
                                                   delta, FALSE)>>)
                   ELSE Emit(t, <<>>)
  ELSE IF eventType = "response.function_call_arguments.done" THEN Emit(t, <<>>)
  ELSE IF eventType = "response.output_item.done"
    THEN IF eventData.t = "null" THEN Raise(t)
         ELSE LET item == eventData.item IN
              IF item.type = "function_call"
                THEN LET toolCallId == OrElse(item.call_id, OrElse(item.id, "call_now"))
                         index == t.toolCallIndex
                     IN Emit([t EXCEPT !.toolCallIndex = index + 1],
                             <<createCompleteToolCallChunk(
                                 index, toolCallId, OrElse(item.name, ""),
                                 IF item.arguments # <<>> THEN item.arguments
                                                          ELSE <<"{}">>)>>)
                ELSE Emit(t, <<>>)
  ELSE IF eventType \in {"response.done", "response.completed"}
    THEN IF eventData.t = "null" THEN Raise(t)
         ELSE LET status == OrElse(eventData.response_status,
                                   OrElse(eventData.status, "completed"))
              IN Emit([t EXCEPT !.isDone = TRUE],
                      <<createOpenAIChunk(<<>>, "null", TRUE, FinishReason(t, status)),
                        createDoneSignal>>)
  ELSE Emit(t, <<>>)

\* buffer.split('\n'), and lines.pop() for the new buffer
RECURSIVE SplitLines(_, _, _)
SplitLines(text, current, lines) ==
  IF text = <<>> THEN [lines |-> lines, rest |-> current]
  ELSE IF Head(text) = NL
    THEN SplitLines(Tail(text), <<>>, Append(lines, current))
  ELSE SplitLines(Tail(text), Append(current, Head(text)), lines)

\* mutant: the event label stays pending after its data line
ProcessLine_keepsLabel(t, line) ==
  IF IsBlank(line) THEN Emit(t, <<>>)
  ELSE LET parsed == parseSSELine(line) IN
       IF parsed.type = "null" THEN Emit(t, <<>>)
       ELSE IF parsed.type = "event"
         THEN Emit([t EXCEPT !.currentEvent = parsed.value], <<>>)
       ELSE IF t.currentEvent # ""
         THEN transformEvent(t, t.currentEvent, parsed.data)
       ELSE Emit(t, <<>>)

\* the body of `for (const line of lines)` for one line
ProcessLine(t, line) ==
  IF IsBlank(line) THEN Emit(t, <<>>)
  ELSE LET parsed == parseSSELine(line) IN
       IF parsed.type = "null" THEN Emit(t, <<>>)
       ELSE IF parsed.type = "event"
         THEN Emit([t EXCEPT !.currentEvent = parsed.value], <<>>)
       ELSE IF t.currentEvent # ""
         THEN LET r == transformEvent(t, t.currentEvent, parsed.data) IN
              IF r.threw THEN r
              ELSE Emit([r.tr EXCEPT !.currentEvent = ""], r.out)
       ELSE Emit(t, <<>>)

\* mutant: the frames of a chunk's lines are collected newest first
RECURSIVE ProcessLines_newestFirst(_, _, _)
ProcessLines_newestFirst(t, lines, out) ==
  IF lines = <<>> THEN [tr |-> t, out |-> out, threw |-> FALSE]
  ELSE LET r == ProcessLine(t, Head(lines)) IN
       IF r.threw THEN [tr |-> r.tr, out |-> out, threw |-> TRUE]
       ELSE ProcessLines_newestFirst(r.tr, Tail(lines), r.out \o out)

\* `for (const line of lines)`: stops at the first line that raises
RECURSIVE ProcessLines(_, _, _)
ProcessLines(t, lines, out) ==
  IF lines = <<>> THEN [tr |-> t, out |-> out, threw |-> FALSE]
  ELSE LET r == ProcessLine(t, Head(lines)) IN
       IF r.threw THEN [tr |-> r.tr, out |-> out, threw |-> TRUE]
       ELSE ProcessLines(r.tr, Tail(lines), out \o r.out)

\* the body of `for await (const chunk of sourceStream)` for one chunk
ProcessChunk(t, chunk) ==
  LET split == SplitLines(t.buffer \o chunkToString(chunk), <<>>, <<>>) IN
  ProcessLines([t EXCEPT !.buffer = split.rest], split.lines, <<>>)

\* mutant: only the sentinel is synthesized at the end of the stream
EndOfStreamFrames_sentinelOnly(t) ==
  IF ~t.isDone THEN <<createDoneSignal>> ELSE <<>>

\* after the loop: `if (!this.isDone) { yield final chunk; yield done }`
EndOfStreamFrames(t) ==
  IF ~t.isDone
    THEN <<createOpenAIChunk(<<>>, "null", TRUE, "stop"), createDoneSignal>>
    ELSE <<>>

\* mutant: the catch block rethrows without the sentinel
CatchFrames_rethrowOnly(t) == <<>>

\* the catch block: `if (!this.isDone) { yield done }`, then `throw error`
CatchFrames(t) ==
  IF ~t.isDone THEN <<createDoneSignal>> ELSE <<>>

(***************************************************************************)
(* Upstream: the vendor sends SSE frames, a frame being an event line, a   *)
(* data line and a blank line, cut into chunks anywhere.                   *)
(***************************************************************************)
EventLine(name) == <<"event:", name, NL>>
DataLine(body) == <<"data:", body, "}", NL>>

\* the frames of a function call: its start, an arguments delta, the completion
FunctionCallAdded == EventLine("response.output_item.added") \o DataLine("{item:fc") \o <<NL>>
ArgumentsDelta(d) ==
  EventLine("response.function_call_arguments.delta")
    \o DataLine(IF d = "p" THEN "{item_id:X,delta:p" ELSE "{item_id:X,delta:q") \o <<NL>>
ResponseCompleted ==
  EventLine("response.completed") \o DataLine("{response:completed") \o <<NL>>

ToolCallFrames ==
  {FunctionCallAdded, ArgumentsDelta("p"), ArgumentsDelta("q"), ResponseCompleted}

VendorFrames ==
  { EventLine("response.created") \o DataLine("{") \o <<NL>>,
    EventLine("response.output_text.delta") \o DataLine("{delta:a") \o <<NL>>,
    FunctionCallAdded,
    ArgumentsDelta("p"),
    EventLine("response.output_item.done") \o DataLine("{item:fc") \o <<NL>>,
    ResponseCompleted,
    EventLine("response.done") \o DataLine("{response:incomplete") \o <<NL>>,
    EventLine("response.queued") \o DataLine("{") \o <<NL>>,
    EventLine("response.done") \o DataLine("{response:failed") \o <<NL>>,
    EventLine("response.output_text.delta")
      \o <<"data:", "{delta:\"", LeadByte, ContinuationByte, "\"}", NL, NL>>,
    EventLine("response.output_text.delta") \o <<"data:", "null", NL, NL>>,
    DataLine("{delta:a") \o <<NL>> }

\* lines of a stream taken one by one: two event lines (one of them outside
\* the vocabulary of transformEvent), a data line, a blank line, a comment
SSELines ==
  { EventLine("response.output_item.added"),
    EventLine("response.queued"),
    DataLine("{item:fc"),
    <<NL>>,
    <<":", NL>> }

(***************************************************************************)
(* Initial state: the module state after initializeAuth()                  *)
(***************************************************************************)
InitDispatch ==
  /\ authSource \in {"factory_key", "env", "file", "client"}
  /\ \E n \in 1..Min(MaxKeys, MaxPoolKeys) :
       factoryApiKeys = IF authSource = "factory_key"
                          THEN SubSeq(KeyEnvValues, 1, n) ELSE <<>>
  /\ currentApiKey = IF authSource \in {"env", "file"} THEN "tok" ELSE "null"
  /\ stale = FALSE
  /\ currentKeyIndex = 0
  /\ startingKeyIndex = 0
  /\ hasCompletedFullCycle = FALSE
  /\ pc = "idle"
  /\ reqKind = "ok"
  /\ authHeader = NoHeader
  /\ newAuthHeader = NoHeader
  /\ attempt = 0
  /\ response = NoResponse
  /\ result = NoResult
  /\ clientStatus = 0
  /\ nsends = 0
  /\ tried = {}
  /\ resent = FALSE
  /\ rotations = 0
  /\ rotateCalls = 0
  /\ quotaAnswers = 0
  /\ transportFailures = 0
  /\ interleaved = FALSE
  /\ fallbackReported = FALSE
  /\ refreshKeyEnv = (authSource = "env")
  /\ refreshTokenFile = (authSource = "file")
  /\ clientAuthorization = NoHeader
  /\ keyOutcome = NoOutcome
  /\ kpc = "idle"
  /\ currentRefreshToken = IF authSource \in {"env", "file"} THEN "r1" ELSE NoToken
  /\ submittedToken = NoToken
  /\ otherRefresh = NoToken

InFlight == pc \notin {"idle", "done"}

\* `fetch(url, fetchOptions)`: the send carries fetchOptions.headers.authorization
Send(header) ==
  /\ nsends < SendCap
  /\ nsends' = nsends + 1
  /\ tried' = tried \cup {header}
  /\ resent' = (resent \/ header \in tried)

\* the handler's `res.status(s).json(...)` and return
Answer(s) ==
  /\ pc' = "done"
  /\ clientStatus' = s

(***************************************************************************)
(* Time passes: the token of the refresh mechanism reaches 6 hours         *)
(***************************************************************************)
TokenAges ==
  /\ UNCHANGED <<streamVars, pureVars>>
  /\ authSource \in {"env", "file"}
  /\ ~stale
  /\ stale' = TRUE
  /\ UNCHANGED <<authSource, factoryApiKeys, currentApiKey, currentKeyIndex,
                 startingKeyIndex, hasCompletedFullCycle, reqVars, obsVars>>

(***************************************************************************)
(* Other requests in flight                                                *)
(***************************************************************************)
\* mutant: a new cycle starts again from the primary key
OtherDispatchStarts_resetsToPrimary ==
  /\ UNCHANGED <<streamVars, pureVars>>
  /\ currentKeyIndex' = 0
  /\ startingKeyIndex' = 0
  /\ hasCompletedFullCycle' = FALSE
  /\ interleaved' = (interleaved \/ InFlight)
  /\ UNCHANGED <<authSource, factoryApiKeys, currentApiKey, stale,
                 reqVars, nsends, tried, resent, rotations, rotateCalls,
                 quotaAnswers, transportFailures, fallbackReported>>

\* another request enters fetchWithFallback: startNewRotationCycle()
OtherDispatchStarts ==
  /\ UNCHANGED <<streamVars, pureVars>>
  /\ startingKeyIndex' = currentKeyIndex
  /\ hasCompletedFullCycle' = FALSE
  /\ interleaved' = (interleaved \/ InFlight)
  /\ UNCHANGED <<authSource, factoryApiKeys, currentApiKey, stale, currentKeyIndex,
                 reqVars, nsends, tried, resent, rotations, rotateCalls,
                 quotaAnswers, transportFailures, fallbackReported>>

\* another request got a quota/auth status:
\* `if (hasMoreFactoryKeys()) { const rotated = rotateFactoryApiKey(); ...`
OtherDispatchRotates ==
  /\ UNCHANGED <<streamVars, pureVars>>
  /\ hasMoreFactoryKeys
  /\ currentKeyIndex' = rotateFactoryApiKey.currentKeyIndex
  /\ hasCompletedFullCycle' = rotateFactoryApiKey.hasCompletedFullCycle
  /\ interleaved' = (interleaved \/ InFlight)
  /\ UNCHANGED <<authSource, factoryApiKeys, currentApiKey, stale, startingKeyIndex,
                 reqVars, nsends, tried, resent, rotations, rotateCalls,
                 quotaAnswers, transportFailures, fallbackReported>>

\* mutant: a refresh that failed still stamps lastRefreshTime
RefreshAnswer_failureStampsTime(ok, accessToken) ==
  IF ok
    THEN /\ currentApiKey' = accessToken
         /\ \E token \in RefreshTokens : currentRefreshToken' = token
         /\ stale' = FALSE
    ELSE /\ stale' = FALSE
         /\ UNCHANGED <<currentApiKey, currentRefreshToken>>

\* what a refresh in flight leaves when its answer arrives: the tokens of the
\* answer and a new lastRefreshTime, or nothing changed when it failed
RefreshAnswer(ok, accessToken) ==
  IF ok
    THEN /\ currentApiKey' = accessToken
         /\ \E token \in RefreshTokens : currentRefreshToken' = token
         /\ stale' = FALSE
    ELSE UNCHANGED <<currentApiKey, currentRefreshToken, stale>>

\* another request calls getApiKey while the token is stale: refreshApiKey
\* submits the current refresh token and waits for the answer
OtherRefreshStarts ==
  /\ UNCHANGED <<streamVars, normVars, injectVars, keyVars>>
  /\ authSource \in {"env", "file"}
  /\ stale
  /\ otherRefresh = NoToken
  /\ otherRefresh' = currentRefreshToken
  /\ UNCHANGED <<authVars, reqVars, obsVars, currentRefreshToken, submittedToken>>

\* the answer to another request's refresh arrives
OtherRefreshCompletes ==
  /\ UNCHANGED <<streamVars, normVars, injectVars, keyVars>>
  /\ otherRefresh # NoToken
  /\ otherRefresh' = NoToken
  /\ \E ok \in BOOLEAN : RefreshAnswer(ok, "tok")
  /\ UNCHANGED <<authSource, factoryApiKeys, currentKeyIndex, startingKeyIndex,
                 hasCompletedFullCycle, reqVars, obsVars, submittedToken>>

(***************************************************************************)
(* handleChatCompletions (and the three direct handlers, which share the   *)
(* same steps): validation, then `await getApiKey(req.headers.authorization)` *)
(***************************************************************************)
\* mutant: the model id is not looked up, an unknown model goes on to dispatch
HandleRequest_noModelLookup ==
  /\ UNCHANGED <<streamVars, normVars, injectVars, keyVars>>
  /\ pc = "idle"
  /\ \E kind \in RequestKinds, authorization \in {NoHeader, ClientHeader} :
       LET key == getApiKey(authorization) IN
       /\ reqKind' = kind
       /\ IF kind = "no_model" THEN Answer(400) /\ UNCHANGED <<authHeader, submittedToken>>
          ELSE IF kind = "no_endpoint" THEN Answer(500) /\ UNCHANGED <<authHeader, submittedToken>>
          ELSE IF key.kind = "throw" THEN Answer(500) /\ UNCHANGED <<authHeader, submittedToken>>
          ELSE IF key.kind = "refresh"
            THEN \* refreshApiKey submits the refresh token and waits
                 /\ pc' = "refreshing"
                 /\ submittedToken' = currentRefreshToken
                 /\ UNCHANGED <<authHeader, clientStatus>>
          ELSE /\ pc' = "gotKey"
               /\ authHeader' = key.value
               /\ UNCHANGED <<clientStatus, submittedToken>>
  /\ UNCHANGED <<authVars, newAuthHeader, attempt, response, result, obsVars,
                 currentRefreshToken, otherRefresh>>

HandleRequest ==
  /\ UNCHANGED <<streamVars, normVars, injectVars, keyVars>>
  /\ pc = "idle"
  /\ \E kind \in RequestKinds, authorization \in {NoHeader, ClientHeader} :
       LET key == getApiKey(authorization) IN
       /\ reqKind' = kind
       /\ IF kind = "no_model" THEN Answer(400) /\ UNCHANGED <<authHeader, submittedToken>>
          ELSE IF kind = "unknown_model" THEN Answer(404) /\ UNCHANGED <<authHeader, submittedToken>>
          ELSE IF kind = "no_endpoint" THEN Answer(500) /\ UNCHANGED <<authHeader, submittedToken>>
          ELSE IF key.kind = "throw" THEN Answer(500) /\ UNCHANGED <<authHeader, submittedToken>>
          ELSE IF key.kind = "refresh"
            THEN \* refreshApiKey submits the refresh token and waits
                 /\ pc' = "refreshing"
                 /\ submittedToken' = currentRefreshToken
                 /\ UNCHANGED <<authHeader, clientStatus>>
          ELSE /\ pc' = "gotKey"
               /\ authHeader' = key.value
               /\ UNCHANGED <<clientStatus, submittedToken>>
  /\ UNCHANGED <<authVars, newAuthHeader, attempt, response, result, obsVars,
                 currentRefreshToken, otherRefresh>>

(***************************************************************************)
(* auth.js: refreshApiKey resumes after `await fetch(REFRESH_URL, ...)`    *)
(***************************************************************************)
RefreshCompletes ==
  /\ UNCHANGED <<streamVars, normVars, injectVars, keyVars>>
  /\ pc = "refreshing"
  /\ submittedToken' = NoToken
  /\ \E ok \in BOOLEAN :
       /\ RefreshAnswer(ok, "tok")
       /\ IF ok
            THEN \* getApiKey goes on: `Bearer ${currentApiKey}`
                 /\ pc' = "gotKey"
                 /\ authHeader' = Bearer(currentApiKey')
                 /\ UNCHANGED clientStatus
            ELSE \* refreshApiKey threw, and getApiKey with it: the handler's catch
                 /\ Answer(500)
                 /\ UNCHANGED authHeader
  /\ UNCHANGED <<authSource, factoryApiKeys, currentKeyIndex, startingKeyIndex,
                 hasCompletedFullCycle, reqKind, newAuthHeader, attempt, response,
                 result, obsVars, otherRefresh>>

\* mutant: every dispatch starts again from the primary key
BeginDispatch_fromPrimary ==
  /\ UNCHANGED <<streamVars, pureVars>>
  /\ pc = "gotKey"
  /\ IF reqKind = "bad_transform"
       THEN /\ Answer(500)
            /\ UNCHANGED <<authVars, attempt, nsends, tried, resent>>
       ELSE \* startNewRotationCycle()
            /\ currentKeyIndex' = 0
            /\ startingKeyIndex' = 0
            /\ hasCompletedFullCycle' = FALSE
            /\ attempt' = 1
            /\ Send(authHeader)
            /\ pc' = "fetching"
            /\ UNCHANGED <<authSource, factoryApiKeys, currentApiKey, stale,
                           clientStatus>>
  /\ UNCHANGED <<reqKind, authHeader, newAuthHeader, response, result,
                 rotations, rotateCalls, quotaAnswers, transportFailures, interleaved, fallbackReported>>

(***************************************************************************)
(* The handler resumes with authHeader: transform the request, build the   *)
(* headers, call fetchWithFallback, which runs to its first `await fetch`. *)
(***************************************************************************)
BeginDispatch ==
  /\ UNCHANGED <<streamVars, pureVars>>
  /\ pc = "gotKey"
  /\ IF reqKind = "bad_transform"
       THEN /\ Answer(500)
            /\ UNCHANGED <<authVars, attempt, nsends, tried, resent>>
       ELSE \* startNewRotationCycle()
            /\ startingKeyIndex' = currentKeyIndex
            /\ hasCompletedFullCycle' = FALSE
            /\ attempt' = 1
            /\ Send(authHeader)
            /\ pc' = "fetching"
            /\ UNCHANGED <<authSource, factoryApiKeys, currentApiKey, stale,
                           currentKeyIndex, clientStatus>>
  /\ UNCHANGED <<reqKind, authHeader, newAuthHeader, response, result,
                 rotations, rotateCalls, quotaAnswers, transportFailures, interleaved, fallbackReported>>

\* fetchWithFallback ends by throwing `err`
Throws(err) ==
  /\ result' = [kind |-> "throw", response |-> NoResponse, error |-> err]
  /\ pc' = "returned"

\* fetchWithFallback ends by `return response`
Returns(resp) ==
  /\ result' = [kind |-> "response", response |-> resp, error |-> ""]
  /\ pc' = "returned"

(***************************************************************************)
(* `await fetch(url, fetchOptions)` resolves with an upstream status       *)
(***************************************************************************)
FetchResolves ==
  /\ UNCHANGED <<streamVars, pureVars>>
  /\ pc = "fetching"
  /\ \E status \in Statuses :
       LET resp == [id |-> attempt, status |-> status, bodyUsed |-> FALSE] IN
       /\ response' = resp
       /\ IF isQuotaOrAuthError(status)
            THEN \* clone, then `await responseClone.text()`
                 /\ pc' = "readingError"
                 /\ UNCHANGED <<result, fallbackReported>>
            ELSE \* `if (didRotationOccur())`: the binding does not exist, the
                 \* call raises inside the try block and the catch rethrows
                 IF didRotationOccurExported
                   THEN \* the banner is printed when the call returns true
                        /\ Returns(resp)
                        /\ fallbackReported' \in BOOLEAN
                   ELSE /\ Throws("TypeError")
                        /\ fallbackReported' = FALSE
  /\ UNCHANGED <<authVars, reqKind, authHeader, newAuthHeader, attempt, clientStatus,
                 nsends, tried, resent, rotations, rotateCalls, quotaAnswers,
                 transportFailures, interleaved>>

\* mutant: the catch block retries the send instead of rethrowing
FetchRejects_retries ==
  /\ UNCHANGED <<streamVars, pureVars>>
  /\ pc \in {"fetching", "readingError"}
  /\ transportFailures < 2
  /\ transportFailures' = transportFailures + 1
  /\ attempt' = attempt + 1
  /\ Send(authHeader)
  /\ pc' = "fetching"
  /\ UNCHANGED <<authVars, reqKind, authHeader, newAuthHeader, response, result,
                 clientStatus, rotations, rotateCalls, quotaAnswers, interleaved, fallbackReported>>

(***************************************************************************)
(* `await fetch(...)` or `await responseClone.text()` rejects: the catch   *)
(* block logs and rethrows                                                 *)
(***************************************************************************)
FetchRejects ==
  /\ UNCHANGED <<streamVars, pureVars>>
  /\ pc \in {"fetching", "readingError"}
  /\ Throws("network")
  /\ transportFailures' = transportFailures + 1
  /\ UNCHANGED <<authVars, reqKind, authHeader, newAuthHeader, attempt, response,
                 clientStatus, nsends, tried, resent, rotations, rotateCalls,
                 quotaAnswers, interleaved, fallbackReported>>

(***************************************************************************)
(* fetchWithFallback resumes with errorText: hasMoreFactoryKeys(),         *)
(* rotateFactoryApiKey(), then `await getApiKey()` or `return response`    *)
(***************************************************************************)
HandleKeyFailure ==
  /\ UNCHANGED <<streamVars, pureVars>>
  /\ pc = "readingError"
  /\ LET resp == ReadErrorText(response)
         rot == rotateFactoryApiKey
     IN
     /\ response' = resp
     /\ quotaAnswers' = quotaAnswers + 1
     /\ IF hasMoreFactoryKeys
          THEN /\ currentKeyIndex' = rot.currentKeyIndex
               /\ hasCompletedFullCycle' = rot.hasCompletedFullCycle
               /\ rotateCalls' = rotateCalls + 1
               /\ IF rot.ret
                    THEN /\ rotations' = rotations + 1
                         \* getApiKey() reads the pool at the index just selected
                         /\ newAuthHeader' = Bearer(PoolKey(rot.currentKeyIndex))
                         /\ pc' = "gettingKey"
                         /\ UNCHANGED result
                    ELSE /\ Returns(resp)
                         /\ UNCHANGED <<rotations, newAuthHeader>>
          ELSE /\ Returns(resp)
               /\ UNCHANGED <<currentKeyIndex, hasCompletedFullCycle, rotateCalls,
                              rotations, newAuthHeader>>
  /\ UNCHANGED <<authSource, factoryApiKeys, currentApiKey, stale, startingKeyIndex,
                 reqKind, authHeader, attempt, clientStatus, nsends, tried, resent,
                 transportFailures, interleaved, fallbackReported>>

(***************************************************************************)
(* fetchWithFallback resumes with newAuthHeader: set the header,           *)
(* attempt++, continue; the loop test, then the next `await fetch`         *)
(***************************************************************************)
RetryWithFallbackKey ==
  /\ UNCHANGED <<streamVars, pureVars>>
  /\ pc = "gettingKey"
  /\ authHeader' = newAuthHeader
  /\ attempt' = attempt + 1
  /\ IF LoopContinues(attempt + 1)
       THEN /\ Send(newAuthHeader)
            /\ pc' = "fetching"
            /\ UNCHANGED result
       ELSE \* throw lastError || new Error('Request failed after all attempts')
            /\ Throws("Request failed after all attempts")
            /\ UNCHANGED <<nsends, tried, resent>>
  /\ UNCHANGED <<authVars, reqKind, newAuthHeader, response, clientStatus,
                 rotations, rotateCalls, quotaAnswers, transportFailures, interleaved, fallbackReported>>

(***************************************************************************)
(* The handler resumes after `await fetchWithFallback(...)`                *)
(***************************************************************************)
\* status the handler answers with, given how fetchWithFallback ended
HandlerStatus(res) ==
  IF res.kind = "throw" THEN 500                \* outer catch: proxy_error
  ELSE IF ~ResponseOk(res.response)
    THEN IF res.response.bodyUsed
           THEN 500                             \* response.text() rejects: body used already
           ELSE res.response.status             \* res.status(response.status).json(...)
  ELSE 200                                      \* streamed or res.json(data)

\* mutant: no outer catch, an exception of the dispatch is left unanswered
HandlerAnswers_noOuterCatch ==
  /\ UNCHANGED <<streamVars, pureVars>>
  /\ pc = "returned"
  /\ result.kind # "throw"
  /\ Answer(HandlerStatus(result))
  /\ UNCHANGED <<authVars, reqKind, authHeader, newAuthHeader, attempt, response,
                 result, obsVars>>

HandlerAnswers ==
  /\ UNCHANGED <<streamVars, pureVars>>
  /\ pc = "returned"
  /\ Answer(HandlerStatus(result))
  /\ UNCHANGED <<authVars, reqKind, authHeader, newAuthHeader, attempt, response,
                 result, obsVars>>

(***************************************************************************)
(* A new inbound request is followed                                       *)
(***************************************************************************)
NewRequest ==
  /\ UNCHANGED <<streamVars, pureVars>>
  /\ pc = "done"
  /\ pc' = "idle"
  /\ reqKind' = "ok"
  /\ authHeader' = NoHeader
  /\ newAuthHeader' = NoHeader
  /\ attempt' = 0
  /\ response' = NoResponse
  /\ result' = NoResult
  /\ clientStatus' = 0
  /\ nsends' = 0
  /\ tried' = {}
  /\ resent' = FALSE
  /\ rotations' = 0
  /\ rotateCalls' = 0
  /\ quotaAnswers' = 0
  /\ transportFailures' = 0
  /\ interleaved' = FALSE
  /\ fallbackReported' = FALSE
  /\ UNCHANGED authVars

(***************************************************************************)
(* handleChatCompletions, streaming branch:                                *)
(*   for await (const chunk of transformer.transformStream(response.body)) *)
(*     res.write(chunk);                                                   *)
(* One action is one upstream chunk taken through transformStream and the  *)
(* handler's loop, up to the next read of the source stream.               *)
(***************************************************************************)
InitStream ==
  /\ tr = NewTransformer
  /\ yielded = <<>>
  /\ written = <<>>
  /\ ended = FALSE
  /\ spc = "streaming"
  /\ failure = "none"
  /\ upcoming = <<>>
  /\ framesSent = 0
  /\ connected = TRUE
  /\ delivered = <<>>
  /\ decoded = <<>>

\* the handler's catch: write the error frame, res.end()
HandlerCatches(out) ==
  /\ yielded' = yielded \o out
  /\ written' = written \o out \o <<ErrorFrame>>
  /\ ended' = TRUE
  /\ spc' = "finished"

\* upstream delivers the next chunk: the first n bytes of the frame it is
\* sending (a new frame among `frames`, at most `most` of them, when it is in
\* the middle of none), or the rest of that frame and the whole of a new one
UpstreamDelivers(frames, most) ==
  /\ spc = "streaming"
  /\ \E next \in (IF framesSent < most THEN frames ELSE {}) \cup {<<>>} :
       LET text == upcoming \o next IN
       \E n \in 1..Len(text) :
         LET chunk == SubSeq(text, 1, n)
             r == ProcessChunk(tr, chunk)
         IN
         /\ next # <<>> => (upcoming = <<>> \/ n = Len(text))
         /\ upcoming' = SubSeq(text, n + 1, Len(text))
         /\ framesSent' = IF next # <<>> THEN framesSent + 1 ELSE framesSent
         /\ delivered' = delivered \o chunk
         /\ decoded' = decoded \o chunkToString(chunk)
         /\ tr' = r.tr
         /\ IF r.threw
              THEN /\ failure' = "transform"
                   /\ HandlerCatches(r.out \o CatchFrames(r.tr))
              ELSE /\ yielded' = yielded \o r.out
                   /\ written' = written \o r.out
                   /\ UNCHANGED <<ended, spc, failure>>
  /\ UNCHANGED <<connected, dispatchVars, pureVars>>

UpstreamChunk == UpstreamDelivers(VendorFrames, MaxFrames)

\* the same, of a response that does nothing but call tools
ToolCallChunk == UpstreamDelivers(ToolCallFrames, MaxToolFrames)

\* the same, of a stream followed line by line
UpstreamLine == UpstreamDelivers(SSELines, MaxLines)

\* the source stream ends: the frames after the loop, then res.end()
StreamEnds ==
  /\ spc = "streaming"
  /\ yielded' = yielded \o EndOfStreamFrames(tr)
  /\ written' = written \o EndOfStreamFrames(tr)
  /\ ended' = TRUE
  /\ spc' = "finished"
  /\ UNCHANGED <<tr, failure, upcoming, framesSent, connected, delivered, decoded,
                 dispatchVars, pureVars>>

\* reading the source stream fails: the catch block of transformStream,
\* then the catch block of the handler
StreamFails ==
  /\ spc = "streaming"
  /\ failure' = "source"
  /\ HandlerCatches(CatchFrames(tr))
  /\ UNCHANGED <<tr, upcoming, framesSent, connected, delivered, decoded, dispatchVars, pureVars>>

NextStream ==
  \/ UpstreamChunk
  \/ StreamEnds
  \/ StreamFails

(***************************************************************************)
(* handleChatCompletions, non-streaming branch of an 'openai' model:       *)
(*   const data = await response.json();                                   *)
(*   try { res.json(convertResponseToChatCompletion(data)) }               *)
(*   catch (e) { res.json(data) }                                          *)
(* A JSON value is a record: its type `t` and, for an object, the          *)
(* properties convertResponseToChatCompletion reads (U, 0 or               *)
(* present = FALSE for a property that is not there).                      *)
(***************************************************************************)
SeqsUpTo(S, n) == UNION {[1..k -> S] : k \in 0..n}

\* content blocks: { type, text }
Blocks ==
  {[type |-> "output_text", text |-> "a"], [type |-> "output_text", text |-> "b"],
   [type |-> "refusal", text |-> "r"]}

NoContent == [present |-> FALSE, blocks |-> <<>>]
Contents == {NoContent} \cup {[present |-> TRUE, blocks |-> b] : b \in SeqsUpTo(Blocks, MaxBlocks)}

\* output items: { type, content }
OutputItems ==
  {[type |-> "message", content |-> c] : c \in Contents}
    \cup {[type |-> "reasoning", content |-> NoContent]}

NoOutput == [present |-> FALSE, items |-> <<>>]
Outputs ==
  {NoOutput} \cup {[present |-> TRUE, items |-> <<>>]}
    \cup {[present |-> TRUE, items |-> <<i>>] : i \in OutputItems}
    \cup {[present |-> TRUE, items |-> <<i, j>>] : i, j \in OutputItems}

\* a value with none of the properties
Bare(t) ==
  [t |-> t, id |-> U, created_at |-> 0, model |-> U, status |-> U,
   output |-> NoOutput, total_tokens |-> 0]

\* what `await response.json()` can give
VendorObjects ==
  {[Bare("object") EXCEPT !.id = id, !.created_at = created, !.status = status,
                          !.output = output, !.model = extras[1],
                          !.total_tokens = extras[2]] :
     id \in {U, "resp_1", "x1"}, created \in {0, 5},
     status \in {U, "completed", "incomplete"}, output \in Outputs,
     extras \in {<<U, 0>>, <<"gpt", 7>>}}
VendorValues ==
  VendorObjects \cup {Bare("null"), Bare("string"), Bare("number"), Bare("array")}

\* the instants Date.now() is read at
Instants == {MsPerSecond, MsPerSecond + 1, 2 * MsPerSecond}

NoCompletion ==
  [id |-> [text |-> U, stamp |-> 0], created |-> 0, model |-> U, role |-> U,
   content |-> <<>>, finish_reason |-> U, total_tokens |-> 0]
NotCalled == [called |-> FALSE, threw |-> FALSE, value |-> NoCompletion]

\* (resp.output || []).find(o => o.type === 'message')
RECURSIVE FindMessage(_)
FindMessage(items) ==
  IF items = <<>> THEN [found |-> FALSE, item |-> [type |-> U, content |-> NoContent]]
  ELSE IF Head(items).type = "message" THEN [found |-> TRUE, item |-> Head(items)]
  ELSE FindMessage(Tail(items))

IsOutputText(c) == c.type = "output_text"

\* mutant: every content block is taken, whatever its type
TextBlocks_unfiltered(outputMsg) ==
  IF outputMsg.found /\ outputMsg.item.content.present
    THEN outputMsg.item.content.blocks
    ELSE <<>>

\* outputMsg?.content?.filter(c => c.type === 'output_text') || []
TextBlocks(outputMsg) ==
  IF outputMsg.found /\ outputMsg.item.content.present
    THEN SelectSeq(outputMsg.item.content.blocks, IsOutputText)
    ELSE <<>>

\* textBlocks.map(c => c.text).join('')
RECURSIVE JoinText(_)
JoinText(blocks) ==
  IF blocks = <<>> THEN <<>> ELSE <<Head(blocks).text>> \o JoinText(Tail(blocks))

\* resp.id ? resp.id.replace(/^resp_/, 'chatcmpl-') : `chatcmpl-${Date.now()}`
CompletionId(id, clock) ==
  IF id = U THEN [text |-> "chatcmpl-", stamp |-> clock]
  ELSE IF id = "resp_1" THEN [text |-> "chatcmpl-1", stamp |-> 0]
  ELSE [text |-> id, stamp |-> 0]

\* the call's outcome: the chat completion it returns, or the Error it throws
convertResponseToChatCompletion(resp, clock) ==
  IF resp.t \in {"null", "string", "number"}
    THEN [called |-> TRUE, threw |-> TRUE, value |-> NoCompletion]
    ELSE LET outputMsg == FindMessage(resp.output.items)
             content == JoinText(TextBlocks(outputMsg))
         IN [called |-> TRUE, threw |-> FALSE,
             value |->
               [id |-> CompletionId(resp.id, clock),
                created |-> IF resp.created_at # 0 THEN resp.created_at
                                                   ELSE clock \div MsPerSecond,
                model |-> OrElse(resp.model, "unknown-model"),
                role |-> "assistant",
                content |-> content,
                finish_reason |-> IF resp.status = "completed" THEN "stop" ELSE "unknown",
                total_tokens |-> resp.total_tokens]]

NoBody == [status |-> 0, raw |-> FALSE, completion |-> NoCompletion, data |-> Bare("null")]

InitNormalize ==
  /\ data \in VendorValues
  /\ now = MsPerSecond
  /\ npc = "received"
  /\ first = NotCalled
  /\ second = NotCalled
  /\ dataAfter = data
  /\ jsonBody = NoBody

\* no non-streaming answer is followed
InitNormalizeIdle ==
  /\ data = Bare("null")
  /\ now = MsPerSecond
  /\ npc = "idle"
  /\ first = NotCalled
  /\ second = NotCalled
  /\ dataAfter = data
  /\ jsonBody = NoBody

\* time passes
ClockAdvances ==
  /\ npc \in {"received", "answered"}
  /\ \E t \in Instants : t > now /\ now' = t
  /\ UNCHANGED <<data, npc, first, second, dataAfter, jsonBody,
                 injectVars, dispatchVars, streamVars, keyVars, refreshVars>>

\* the handler resumes with `data`: convert, res.json(converted), or in the
\* catch res.json(data); the status stays 200
HandlerConverts ==
  /\ npc = "received"
  /\ LET r == convertResponseToChatCompletion(data, now) IN
     /\ first' = r
     /\ jsonBody' = IF r.threw
                      THEN [status |-> 200, raw |-> TRUE, completion |-> NoCompletion,
                            data |-> data]
                      ELSE [status |-> 200, raw |-> FALSE, completion |-> r.value,
                            data |-> Bare("null")]
  /\ npc' = "answered"
  /\ UNCHANGED <<data, now, second, dataAfter, injectVars, dispatchVars, streamVars, keyVars, refreshVars>>

\* convertResponseToChatCompletion is called once more on the same value
ConvertsAgain ==
  /\ npc = "answered"
  /\ second' = convertResponseToChatCompletion(data, now)
  /\ npc' = "repeated"
  /\ UNCHANGED <<data, now, first, dataAfter, jsonBody, injectVars, dispatchVars,
                 streamVars, keyVars, refreshVars>>

NextNormalize ==
  \/ ClockAdvances
  \/ HandlerConverts
  \/ ConvertsAgain

(***************************************************************************)
(* handleDirectMessages / handleDirectResponses: system prompt injection.  *)
(* A field is absent, a string (`text`) or an array of blocks (`blocks`,   *)
(* each block { type: 'text', text } by its text).                         *)
(***************************************************************************)
AbsentField == [form |-> "absent", text |-> <<>>, blocks |-> <<>>]
StringField(text) == [form |-> "string", text |-> text, blocks |-> <<>>]
ArrayField(blocks) == [form |-> "array", text |-> <<>>, blocks |-> blocks]

ClientFields ==
  {AbsentField}
    \cup {StringField(t) : t \in {<<>>, <<"c">>, <<"c", "d">>}}
    \cup {ArrayField(b) : b \in SeqsUpTo({<<"c1">>, <<"c2">>, <<"c3">>}, MaxSystemBlocks)}

SystemPrompts == {<<>>, <<"P">>, <<"P", "Q">>}

\* String(array): the elements, each '[object Object]', joined by ','
RECURSIVE ArrayToString(_)
ArrayToString(blocks) ==
  IF blocks = <<>> THEN <<>>
  ELSE IF Len(blocks) = 1 THEN <<"[object Object]">>
  ELSE <<"[object Object]", ",">> \o ArrayToString(Tail(blocks))

\* a value is truthy: not undefined, not ''
Truthy(field) == field.form = "array" \/ (field.form = "string" /\ field.text # <<>>)

\* handleDirectMessages: modifiedRequest.system
InjectIntoSystem(prompt, system) ==
  IF prompt # <<>>
    THEN IF system.form = "array"
           THEN ArrayField(<<prompt>> \o system.blocks)
           ELSE ArrayField(<<prompt>>)
    ELSE system

\* handleDirectResponses: modifiedRequest.instructions
InjectIntoInstructions(prompt, instructions) ==
  IF prompt # <<>>
    THEN IF Truthy(instructions)
           THEN StringField(prompt \o (IF instructions.form = "array"
                                          THEN ArrayToString(instructions.blocks)
                                          ELSE instructions.text))
           ELSE StringField(prompt)
    ELSE instructions

(***************************************************************************)
(* handleDirectMessages / handleDirectResponses: the reasoning policy of   *)
(* the model.  A thinking / reasoning field is absent or an object with    *)
(* the properties the handlers write: type and budget_tokens (thinking),   *)
(* effort and summary (reasoning); a property not there is "undefined"     *)
(* (0 for budget_tokens).                                                  *)
(***************************************************************************)
AbsentReasoning ==
  [present |-> FALSE, type |-> "undefined", budget_tokens |-> 0,
   effort |-> "undefined", summary |-> "undefined"]

\* { type, budget_tokens }
Thinking(type, budget) ==
  [present |-> TRUE, type |-> type, budget_tokens |-> budget,
   effort |-> "undefined", summary |-> "undefined"]

\* { effort, summary }
Reasoning(effort, summary) ==
  [present |-> TRUE, type |-> "undefined", budget_tokens |-> 0,
   effort |-> effort, summary |-> summary]

\* what a client may send in the field
ClientReasonings ==
  {AbsentReasoning,
   Thinking("enabled", 1024), Thinking("enabled", 24576), Thinking("disabled", 0),
   Reasoning("high", "detailed"), Reasoning("minimal", "undefined")}

\* getModelReasoning(modelId): the model's configured level, "null" when the
\* model has none
ReasoningLevels == {"auto", "off", "low", "medium", "high", "null"}

\* ['low', 'medium', 'high']
ForcedLevels == {"low", "medium", "high"}

\* handleDirectMessages: const budgetTokens = { low, medium, high }
budgetTokens(level) ==
  CASE level = "low" -> 4096
    [] level = "medium" -> 12288
    [] level = "high" -> 24576

\* mutant: level 'off' is handled like 'auto'
ApplyThinking_offKeepsField(level, thinking) ==
  IF level = "auto" \/ level = "off" THEN thinking
  ELSE IF level \in ForcedLevels THEN Thinking("enabled", budgetTokens(level))
  ELSE AbsentReasoning

\* handleDirectMessages: modifiedRequest.thinking
ApplyThinking(level, thinking) ==
  IF level = "auto" THEN thinking
  ELSE IF level \in ForcedLevels THEN Thinking("enabled", budgetTokens(level))
  ELSE AbsentReasoning

\* handleDirectResponses: modifiedRequest.reasoning
ApplyReasoning(level, reasoning) ==
  IF level = "auto" THEN reasoning
  ELSE IF level \in ForcedLevels THEN Reasoning(level, "auto")
  ELSE AbsentReasoning

InitInject ==
  /\ route \in {"messages", "responses"}
  /\ systemPrompt \in SystemPrompts
  /\ clientField \in ClientFields
  /\ outgoingField = AbsentField
  /\ reasoningLevel \in ReasoningLevels
  /\ clientReasoning \in ClientReasonings
  /\ outgoingReasoning = AbsentReasoning
  /\ ipc = "received"

\* no direct request is followed
InitInjectIdle ==
  /\ route = "messages"
  /\ systemPrompt = <<>>
  /\ clientField = AbsentField
  /\ outgoingField = AbsentField
  /\ reasoningLevel = "auto"
  /\ clientReasoning = AbsentReasoning
  /\ outgoingReasoning = AbsentReasoning
  /\ ipc = "idle"

\* the handler builds modifiedRequest
HandlerInjects ==
  /\ ipc = "received"
  /\ outgoingField' = IF route = "messages"
                         THEN InjectIntoSystem(systemPrompt, clientField)
                         ELSE InjectIntoInstructions(systemPrompt, clientField)
  /\ outgoingReasoning' = IF route = "messages"
                             THEN ApplyThinking(reasoningLevel, clientReasoning)
                             ELSE ApplyReasoning(reasoningLevel, clientReasoning)
  /\ ipc' = "forwarded"
  /\ UNCHANGED <<route, systemPrompt, clientField, reasoningLevel, clientReasoning,
                 normVars, dispatchVars, streamVars, keyVars, refreshVars>>

\* the next direct request arrives; it names a model of the same configured
\* reasoning level (every level is an initial one)
NextDirectRequest ==
  /\ ipc = "forwarded"
  /\ \E r \in {"messages", "responses"}, f \in ClientFields,
        reasoning \in ClientReasonings :
       /\ route' = r
       /\ clientField' = f
       /\ clientReasoning' = reasoning
  /\ outgoingField' = AbsentField
  /\ outgoingReasoning' = AbsentReasoning
  /\ ipc' = "received"
  /\ UNCHANGED <<systemPrompt, reasoningLevel, normVars, dispatchVars, streamVars, keyVars, refreshVars>>

NextInject ==
  \/ HandlerInjects
  \/ NextDirectRequest

(***************************************************************************)
(* getApiKey as the handlers call it, for every configuration that         *)
(* loadAuthConfig can find                                                 *)
(***************************************************************************)
\* access tokens the refresh endpoint may hand out
AccessTokens == {"tok", "tok2"}

\* the module state after initializeAuth(), the request at rest
InitAuthOnly ==
  /\ \E n \in 0..Min(MaxKeys, MaxPoolKeys) : factoryApiKeys = SubSeq(KeyEnvValues, 1, n)
  /\ refreshKeyEnv \in BOOLEAN
  /\ refreshTokenFile \in BOOLEAN
  /\ authSource = loadAuthConfig(Len(factoryApiKeys), refreshKeyEnv, refreshTokenFile)
  /\ currentApiKey = IF authSource \in {"env", "file"} THEN "tok" ELSE "null"
  /\ stale = FALSE
  /\ currentKeyIndex = 0
  /\ startingKeyIndex = 0
  /\ hasCompletedFullCycle = FALSE
  /\ pc = "idle"
  /\ reqKind = "ok"
  /\ authHeader = NoHeader
  /\ newAuthHeader = NoHeader
  /\ attempt = 0
  /\ response = NoResponse
  /\ result = NoResult
  /\ clientStatus = 0
  /\ nsends = 0
  /\ tried = {}
  /\ resent = FALSE
  /\ rotations = 0
  /\ rotateCalls = 0
  /\ quotaAnswers = 0
  /\ transportFailures = 0
  /\ interleaved = FALSE
  /\ fallbackReported = FALSE
  /\ clientAuthorization = NoHeader
  /\ keyOutcome = NoOutcome
  /\ kpc = "idle"
  /\ currentRefreshToken = IF authSource \in {"env", "file"} THEN "r1" ELSE NoToken
  /\ submittedToken = NoToken
  /\ otherRefresh = NoToken
  /\ InitStream
  /\ InitNormalizeIdle
  /\ InitInjectIdle

\* a handler calls `await getApiKey(req.headers.authorization || ...)`
KeyRequested ==
  /\ kpc = "idle"
  /\ \E header \in {NoHeader, ClientHeader} :
       LET key == getApiKey(header) IN
       /\ clientAuthorization' = header
       /\ IF key.kind = "refresh"
            THEN /\ kpc' = "refreshing" /\ keyOutcome' = NoOutcome
                 /\ submittedToken' = currentRefreshToken
            ELSE /\ kpc' = "returned" /\ keyOutcome' = key
                 /\ UNCHANGED submittedToken
  /\ UNCHANGED <<refreshKeyEnv, refreshTokenFile, dispatchVars, streamVars,
                 normVars, injectVars, currentRefreshToken, otherRefresh>>

\* getApiKey resumes after `await refreshApiKey()`: the token was replaced,
\* or refreshApiKey threw and getApiKey throws with it
KeyRefreshCompletes ==
  /\ kpc = "refreshing"
  /\ \/ \E token \in AccessTokens :
          /\ RefreshAnswer(TRUE, token)
          /\ keyOutcome' = [kind |-> "value", value |-> Bearer(token)]
       \/ /\ keyOutcome' = [kind |-> "throw", value |-> NoHeader]
          /\ RefreshAnswer(FALSE, "null")
  /\ kpc' = "returned"
  /\ submittedToken' = NoToken
  /\ UNCHANGED <<authSource, factoryApiKeys, currentKeyIndex, startingKeyIndex,
                 hasCompletedFullCycle, reqVars, obsVars, refreshKeyEnv,
                 refreshTokenFile, clientAuthorization, streamVars, normVars, injectVars,
                 otherRefresh>>

\* the handler goes on; the next call is awaited
KeyRequestEnds ==
  /\ kpc = "returned"
  /\ kpc' = "idle"
  /\ clientAuthorization' = NoHeader
  /\ keyOutcome' = NoOutcome
  /\ UNCHANGED <<refreshKeyEnv, refreshTokenFile, dispatchVars, streamVars,
                 normVars, injectVars, refreshVars>>

NextAuth ==
  \/ KeyRequested
  \/ KeyRefreshCompletes
  \/ KeyRequestEnds
  \/ TokenAges
  \/ OtherDispatchStarts
  \/ OtherDispatchRotates

AuthSpec == InitAuthOnly /\ [][NextAuth]_vars

\* the steps above are followed on their own, the rest at rest
InitRest ==
  /\ InitDispatch
  /\ authSource = "factory_key"
  /\ PoolSize = 1
  /\ InitStream

InitNormalizeOnly ==
  /\ InitRest
  /\ InitNormalize
  /\ InitInjectIdle

NormalizeSpec == InitNormalizeOnly /\ [][NextNormalize]_vars

InitInjectOnly ==
  /\ InitRest
  /\ InitNormalizeIdle
  /\ InitInject

InjectSpec == InitInjectOnly /\ [][NextInject]_vars

\* the streaming response is followed on its own, with the dispatcher at rest
InitStreamOnly ==
  /\ InitDispatch
  /\ authSource = "factory_key"
  /\ PoolSize = 1
  /\ InitStream
  /\ InitNormalizeIdle
  /\ InitInjectIdle

StreamSpec == InitStreamOnly /\ [][NextStream]_vars

NextToolCallStream ==
  \/ ToolCallChunk
  \/ StreamEnds
  \/ StreamFails

ToolCallSpec == InitStreamOnly /\ [][NextToolCallStream]_vars

NextPairing ==
  \/ UpstreamLine
  \/ StreamEnds
  \/ StreamFails

PairingSpec == InitStreamOnly /\ [][NextPairing]_vars

\* the client closes its connection while the response is streamed.  The
\* handler registers no listener on 'close' of req or res and never reads
\* res.destroyed / res.writableEnded: nothing of its state changes, and
\* res.write on a closed connection returns false without raising.
ClientDisconnects ==
  /\ spc = "streaming"
  /\ connected
  /\ connected' = FALSE
  /\ UNCHANGED <<tr, yielded, written, ended, spc, failure, upcoming, framesSent,
                 delivered, decoded, dispatchVars, pureVars>>

NextDisconnect ==
  \/ ToolCallChunk
  \/ StreamEnds
  \/ StreamFails
  \/ ClientDisconnects

DisconnectSpec == InitStreamOnly /\ [][NextDisconnect]_vars

\* the dispatcher is followed with no stream in progress
Init ==
  /\ InitDispatch
  /\ InitStream
  /\ InitNormalizeIdle
  /\ InitInjectIdle

Next ==
  \/ TokenAges
  \/ OtherDispatchStarts
  \/ OtherDispatchRotates
  \/ OtherRefreshStarts
  \/ OtherRefreshCompletes
  \/ HandleRequest
  \/ RefreshCompletes
  \/ BeginDispatch
  \/ FetchResolves
  \/ FetchRejects
  \/ HandleKeyFailure
  \/ RetryWithFallbackKey
  \/ HandlerAnswers
  \/ NewRequest

Spec == Init /\ [][Next]_vars

(***************************************************************************)
(* The event loop runs every continuation that is ready, and every send    *)
(* eventually completes (resolves or rejects): the followed request always *)
(* takes its next step.                                                    *)
(***************************************************************************)
RequestStep ==
  \/ RefreshCompletes
  \/ BeginDispatch
  \/ FetchResolves
  \/ FetchRejects
  \/ HandleKeyFailure
  \/ RetryWithFallbackKey
  \/ HandlerAnswers

FairSpec == Spec /\ WF_vars(RequestStep)

\* the same scheduling, for the properties of the handlers' answers
AnswerSpec == Init /\ [][Next]_vars /\ WF_vars(RequestStep)

\* the same behaviours as Spec, for the properties of the rotation state
RotationSpec == Init /\ [][Next]_vars

(***************************************************************************)
(* Properties of the dispatcher and the credential pool                    *)
(***************************************************************************)
Finished == pc \in {"returned", "done"}

PoolHeaders == {Bearer(factoryApiKeys[i]) : i \in 1..PoolSize}

\* C1: on a pool of N >= 2 credentials, a dispatch that no other request
\* interleaves with and whose every send is answered with a quota/auth status
\* makes exactly N sends, each with a different credential of the pool, makes
\* N-1 successful rotations, and returns the response of the N-th send.
C1_FullCycleThenLastResponse ==
  (/\ authSource = "factory_key"
   /\ PoolSize >= 2
   /\ ~interleaved
   /\ Finished
   /\ nsends >= 1
   /\ quotaAnswers = nsends)
  => (/\ result.kind = "response"
      /\ nsends = PoolSize
      /\ tried = PoolHeaders
      /\ ~resent
      /\ rotations = PoolSize - 1
      /\ result.response.id = nsends
      /\ result.response = response)

C1_Witness ==
  /\ authSource = "factory_key"
  /\ PoolSize >= 2
  /\ ~interleaved
  /\ pc = "done"
  /\ quotaAnswers = PoolSize
  /\ nsends = PoolSize
  /\ startingKeyIndex # 0
  /\ result.kind = "response"

\* C2: when fetchWithFallback returns because no further fallback is possible,
\* what it returns is the failing upstream response itself with its body not
\* consumed, and the handler answers the client with that upstream status,
\* not with a generic 500.
C2_ExhaustedResponsePassedThrough ==
  (result.kind = "response" /\ isQuotaOrAuthError(result.response.status))
  => (/\ ~result.response.bodyUsed
      /\ result.response = response
      /\ (pc = "done" => (/\ clientStatus = result.response.status
                          /\ clientStatus # 500)))

C2_Witness ==
  /\ pc = "done"
  /\ result.kind = "response"
  /\ rotations >= 1
  /\ clientStatus = 429

NoRotationFromOutset == authSource # "factory_key" \/ PoolSize = 1

\* C3: with a pool of one credential, or a refreshable token or the client's
\* header as the credential source, a quota/auth status on the first send is
\* returned after exactly one send, rotateFactoryApiKey changes no state, and
\* currentKeyIndex does not change.
C3_NoRotationWithoutFallback ==
  /\ [](NoRotationFromOutset =>
          (/\ rotateFactoryApiKey.ret = FALSE
           /\ rotateFactoryApiKey.currentKeyIndex = currentKeyIndex
           /\ rotateFactoryApiKey.hasCompletedFullCycle = hasCompletedFullCycle
           /\ ~hasCompletedFullCycle
           /\ rotations = 0
           /\ nsends <= 1
           /\ ((Finished /\ quotaAnswers = 1) =>
                 (/\ result.kind = "response"
                  /\ result.response.id = 1
                  /\ isQuotaOrAuthError(result.response.status)
                  /\ nsends = 1))))
  /\ [][NoRotationFromOutset => currentKeyIndex' = currentKeyIndex]_vars

C3_Witness ==
  /\ NoRotationFromOutset
  /\ pc = "done"
  /\ quotaAnswers = 1
  /\ clientStatus = 401

\* C4 (as claimed): a status other than 401, 402, 403 and 429 ends the
\* dispatch after that send and the response is returned to the caller.
C4_OtherStatusReturnsResponse ==
  (/\ Finished
   /\ nsends >= 1
   /\ transportFailures = 0
   /\ response.id = nsends
   /\ ~isQuotaOrAuthError(response.status))
  => (/\ result.kind = "response"
      /\ result.response = response)

\* C5: a transport-level failure of a send is not retried: fetchWithFallback
\* rethrows it at once, with no rotation and no further send in the dispatch.
C5_TransportFailureNotRetried ==
  /\ [](transportFailures >= 1 =>
          (/\ Finished
           /\ transportFailures = 1
           /\ result.kind = "throw"
           /\ result.error = "network"))
  /\ [][transportFailures' >= 1 =>
          (/\ nsends' = nsends
           /\ rotateCalls' = rotateCalls
           /\ rotations' = rotations)]_vars

C5_Witness ==
  /\ transportFailures = 1
  /\ nsends >= 2
  /\ pc = "done"
  /\ clientStatus = 500

C7_IndexWithinPool ==
  PoolSize >= 1 =>
    (/\ currentKeyIndex \in 0..(PoolSize - 1)
     /\ startingKeyIndex \in 0..(PoolSize - 1)
     /\ FactoryKeyHeader \in PoolHeaders)

C7_Witness ==
  /\ PoolSize >= 2
  /\ currentKeyIndex = PoolSize - 1
  /\ interleaved
  /\ pc = "gettingKey"

(***************************************************************************)
(* Properties of the streaming response transformer                        *)
(***************************************************************************)
Last(seq) == seq[Len(seq)]

StopFrame == [Frame("chunk") EXCEPT !.finish_reason = "stop"]
DoneFrame == Frame("done")

\* C8: when the upstream stream ends and no completion event was processed,
\* the last two frames transformStream produces are a final chunk with
\* finish_reason 'stop' and then the 'data: [DONE]' sentinel, whatever
\* events came before.
C8_EndWithoutCompletion ==
  (spc = "finished" /\ failure = "none" /\ ~tr.isDone)
  => (/\ Len(yielded) >= 2
      /\ yielded[Len(yielded) - 1] = StopFrame
      /\ Last(yielded) = DoneFrame
      /\ written = yielded)

C8_Witness ==
  /\ spc = "finished"
  /\ failure = "none"
  /\ ~tr.isDone
  /\ Len(yielded) >= 4
  /\ \E i \in 1..Len(yielded) : yielded[i].kind = "tool_call"
  /\ \E i \in 1..Len(yielded) : yielded[i].content = <<"a">>

\* C9: when reading the upstream stream or transforming an event raises an
\* error and no completion event was processed, transformStream yields the
\* 'data: [DONE]' sentinel before the error reaches the handler.
C9_SentinelBeforeError ==
  (failure # "none" /\ ~tr.isDone)
  => (/\ Len(yielded) >= 1
      /\ Last(yielded) = DoneFrame
      /\ written = yielded \o <<ErrorFrame>>)

C9_Witness ==
  /\ failure = "transform"
  /\ ~tr.isDone
  /\ Len(yielded) >= 3
  /\ ended

\* C10 (as claimed): in a transformed streaming response the 'data: [DONE]'
\* sentinel is written to the client exactly once and is the last frame
\* written.
C10_SentinelOnceAndLast ==
  /\ \A i \in 1..Len(written) : written[i].kind = "done" => i = Len(written)
  /\ spc = "finished" => (Len(written) >= 1 /\ Last(written).kind = "done")

(***************************************************************************)
(* C11: cutting the upstream input into chunks, anywhere, changes nothing: *)
(* the frames transformStream yields are those it yields when the same     *)
(* bytes arrive as one single chunk.                                       *)
(***************************************************************************)
\* transformStream on a source that yields `bytes` as one chunk and then ends
WholeDelivery(bytes) ==
  LET r == ProcessChunk(NewTransformer, bytes) IN
  IF r.threw THEN r.out \o CatchFrames(r.tr)
  ELSE r.out \o EndOfStreamFrames(r.tr)

C11_ChunkingInvariant ==
  (spc = "finished" /\ failure # "source") => yielded = WholeDelivery(delivered)

(***************************************************************************)
(* C12: a function-call start for item X with name n, then k arguments     *)
(* deltas for X, then the completion event: the output has one tool-call   *)
(* entry, at index 0, announced once with name n, and the arguments of its *)
(* chunks, joined in order, are the k deltas joined in order.              *)
(***************************************************************************)
IsPrefix(a, b) == Len(a) <= Len(b) /\ SubSeq(b, 1, Len(a)) = a
Drop(a, b) == SubSeq(b, Len(a) + 1, Len(b))

\* the deltas of a text made of arguments-delta frames only
RECURSIVE DeltaRun(_)
DeltaRun(text) ==
  IF text = <<>> THEN [ok |-> TRUE, deltas |-> <<>>]
  ELSE IF \E d \in {"p", "q"} : IsPrefix(ArgumentsDelta(d), text)
    THEN LET d == CHOOSE x \in {"p", "q"} : IsPrefix(ArgumentsDelta(x), text)
             rest == DeltaRun(Drop(ArgumentsDelta(d), text))
         IN [ok |-> rest.ok, deltas |-> <<d>> \o rest.deltas]
  ELSE [ok |-> FALSE, deltas |-> <<>>]

\* what is delivered between the start frame and the completion frame
BetweenStartAndCompletion ==
  SubSeq(delivered, Len(FunctionCallAdded) + 1, Len(delivered) - Len(ResponseCompleted))

\* the response was: start of X, k deltas for X, completion
OneCallResponse ==
  /\ upcoming = <<>>
  /\ Len(delivered) >= Len(FunctionCallAdded) + Len(ResponseCompleted)
  /\ IsPrefix(FunctionCallAdded, delivered)
  /\ SubSeq(delivered, Len(delivered) - Len(ResponseCompleted) + 1, Len(delivered))
       = ResponseCompleted
  /\ DeltaRun(BetweenStartAndCompletion).ok

IsToolCallFrame(f) == f.kind = "tool_call"
ToolCallChunks == SelectSeq(yielded, IsToolCallFrame)

RECURSIVE JoinArguments(_)
JoinArguments(frames) ==
  IF frames = <<>> THEN <<>> ELSE Head(frames).arguments \o JoinArguments(Tail(frames))

C12_OneToolCallEntry ==
  OneCallResponse =>
    /\ Len(ToolCallChunks) >= 1
    /\ \A i \in 1..Len(ToolCallChunks) : ToolCallChunks[i].index = 0
    /\ ToolCallChunks[1].name = "lookup" /\ ToolCallChunks[1].id = "call_X"
    /\ \A i \in 2..Len(ToolCallChunks) :
         ToolCallChunks[i].name = "absent" /\ ToolCallChunks[i].id = "absent"
    /\ JoinArguments(ToolCallChunks) = DeltaRun(BetweenStartAndCompletion).deltas

C12_Witness ==
  /\ OneCallResponse
  /\ DeltaRun(BetweenStartAndCompletion).deltas = <<"q", "p">>
  /\ Len(ToolCallChunks) = 3
  /\ spc = "finished"

(***************************************************************************)
(* C13: the chunks of a streaming response come out in the order of the    *)
(* vendor events that trigger them: the output is the image of the event   *)
(* sequence, event by event, nothing reordered and nothing merged.         *)
(***************************************************************************)
\* the vendor events of a text: every data line that follows an event line,
\* with the event named by the last event line before it
RECURSIVE VendorEvents(_, _)
VendorEvents(lines, eventName) ==
  IF lines = <<>> THEN <<>>
  ELSE LET line == Head(lines) IN
       IF Len(line) >= 1 /\ line[1] = "event:"
         THEN VendorEvents(Tail(lines), EventValue(Tail(line)))
       ELSE IF Len(line) >= 1 /\ line[1] = "data:" /\ eventName # ""
         THEN <<[type |-> eventName, data |-> JSONparse(Tail(line))]>>
                \o VendorEvents(Tail(lines), "")
       ELSE VendorEvents(Tail(lines), eventName)

\* the chunks of a sequence of events, each event's chunks after those of the
\* events before it, up to the first event transformEvent fails on
RECURSIVE ImageOfEvents(_, _)
ImageOfEvents(t, events) ==
  IF events = <<>> THEN <<>>
  ELSE LET r == transformEvent(t, Head(events).type, Head(events).data) IN
       IF r.threw THEN <<>>
       ELSE r.out \o ImageOfEvents(r.tr, Tail(events))

EventsReceived == VendorEvents(SplitLines(decoded, <<>>, <<>>).lines, "")

C13_OutputInEventOrder ==
  /\ spc = "streaming"
       => (yielded = ImageOfEvents(NewTransformer, EventsReceived) /\ written = yielded)
  /\ (spc = "finished" /\ failure = "none")
       => yielded = ImageOfEvents(NewTransformer, EventsReceived) \o EndOfStreamFrames(tr)

C13_Witness ==
  /\ spc = "streaming"
  /\ Len(EventsReceived) = 3
  /\ Len(yielded) = 3
  /\ yielded[1].kind = "tool_call"
  /\ yielded[2].content = <<"a">>
  /\ yielded[3].kind = "tool_call" /\ yielded[3].arguments = <<"p">>

(***************************************************************************)
(* C14: on a completion event the final chunk says 'length' when the       *)
(* vendor status is incomplete, otherwise 'tool_calls' when the tool-call  *)
(* accumulator has an entry and 'stop' when it has none; the sentinel      *)
(* follows the final chunk immediately and the completion flag is set.     *)
(***************************************************************************)
CompletionEvents == {"response.done", "response.completed"}

\* eventData.response?.status || eventData.status || 'completed'
VendorStatus(eventData) ==
  OrElse(eventData.response_status, OrElse(eventData.status, "completed"))

\* the last event received is a completion event, the only one so far
JustCompleted ==
  /\ spc = "streaming"
  /\ EventsReceived # <<>>
  /\ Last(EventsReceived).type \in CompletionEvents
  /\ \A i \in 1..(Len(EventsReceived) - 1) : EventsReceived[i].type \notin CompletionEvents

C14_FinishReasonOnCompletion ==
  JustCompleted =>
    LET status == VendorStatus(Last(EventsReceived).data)
        expected == IF status = "incomplete" THEN "length"
                    ELSE IF DOMAIN tr.toolCalls # {} THEN "tool_calls"
                    ELSE "stop"
    IN /\ tr.isDone
       /\ Len(yielded) >= 2
       /\ Last(yielded) = DoneFrame
       /\ yielded[Len(yielded) - 1] = [Frame("chunk") EXCEPT !.finish_reason = expected]

(***************************************************************************)
(* C15: once the client has disconnected, the upstream body is read no     *)
(* further and no further chunk is written to the client.                  *)
(***************************************************************************)
C15_StopsOnDisconnect ==
  [][~connected => (delivered' = delivered /\ written' = written)]_vars

Answered == npc \in {"answered", "repeated"}

HasMessageItem(v) == \E i \in 1..Len(v.output.items) : v.output.items[i].type = "message"

\* not an object, or an object without an output list or without a message item
Malformed(v) == v.t # "object" \/ ~v.output.present \/ ~HasMessageItem(v)

\* C17: convertResponseToChatCompletion fails on every malformed input (not
\* an object, no output list, no message item), and handleChatCompletions then
\* answers with the raw vendor value, unmodified, and a success status.
C17_MalformedFallsBackToRaw ==
  (Answered /\ Malformed(data))
    => (/\ first.threw
        /\ jsonBody.raw
        /\ jsonBody.data = data
        /\ jsonBody.status = 200)

\* C18: two calls of convertResponseToChatCompletion on the same valid input
\* return identical outputs, also for an input without id or without
\* created_at, and the input is left as it was.
C18_SameOutputTwice ==
  (npc = "repeated" /\ ~Malformed(data))
    => (/\ ~first.threw /\ ~second.threw
        /\ first.value = second.value
        /\ dataAfter = data)

\* the text of the output_text blocks, in order, from block i on
RECURSIVE OutputTextFrom(_, _)
OutputTextFrom(blocks, i) ==
  IF i > Len(blocks) THEN <<>>
  ELSE (IF blocks[i].type = "output_text" THEN <<blocks[i].text>> ELSE <<>>)
         \o OutputTextFrom(blocks, i + 1)

\* the text of the output item of type 'message' (the first one), '' without one
ExpectedContent(v) ==
  LET messages == {i \in 1..Len(v.output.items) : v.output.items[i].type = "message"} IN
  IF messages = {} THEN <<>>
  ELSE LET m == CHOOSE i \in messages : \A j \in messages : i <= j
       IN OutputTextFrom(v.output.items[m].content.blocks, 1)

\* C19: for every vendor response (an object), the content of
\* choices[0].message is the text of all the output_text blocks of the output
\* item of type 'message', joined in order ('' when there is none), and
\* finish_reason is 'stop' for the status 'completed' and 'unknown' otherwise.
C19_ContentAndFinishReason ==
  (Answered /\ data.t = "object")
    => (/\ ~jsonBody.raw
        /\ jsonBody.completion.content = ExpectedContent(data)
        /\ jsonBody.completion.finish_reason
             = (IF data.status = "completed" THEN "stop" ELSE "unknown"))

C19_Witness ==
  /\ Answered
  /\ data.t = "object"
  /\ data.status = "incomplete"
  /\ Len(data.output.items) = 2
  /\ data.output.items[1].type = "reasoning"
  /\ \E i \in 1..Len(data.output.items[2].content.blocks) :
       data.output.items[2].content.blocks[i].type = "refusal"
  /\ jsonBody.completion.content = <<"b">>
  /\ jsonBody.completion.finish_reason = "unknown"

(***************************************************************************)
(* C20: with a system prompt configured, the outgoing system-carrying      *)
(* field (system of /v1/messages, instructions of /v1/responses) holds the *)
(* prompt first and then all of the client's content, whether the client   *)
(* sent no field, a string or an array of blocks.                          *)
(***************************************************************************)
RECURSIVE Flatten(_)
Flatten(texts) == IF texts = <<>> THEN <<>> ELSE Head(texts) \o Flatten(Tail(texts))

\* the text a field carries: a string's characters, the texts of an array's
\* blocks in order, nothing for a field that is not there
FieldText(field) ==
  IF field.form = "string" THEN field.text ELSE Flatten(field.blocks)

C20_InjectionKeepsClientContent ==
  (ipc = "forwarded" /\ systemPrompt # <<>>)
    => FieldText(outgoingField) = systemPrompt \o FieldText(clientField)

(***************************************************************************)
(* C21: reasoning policy on the direct endpoints.  With level 'auto' the   *)
(* client's thinking / reasoning field, present or absent, is forwarded    *)
(* unchanged; with 'off' the outgoing request has no such field whatever   *)
(* the client sent; with low / medium / high the field is overwritten:     *)
(* thinking with budget_tokens 4096 / 12288 / 24576 on /v1/messages,       *)
(* reasoning with effort = level and summary 'auto' on /v1/responses.      *)
(***************************************************************************)
C21_ReasoningPolicy ==
  ipc = "forwarded" =>
    /\ reasoningLevel = "auto" => outgoingReasoning = clientReasoning
    /\ reasoningLevel = "off" => ~outgoingReasoning.present
    /\ (reasoningLevel \in {"low", "medium", "high"} /\ route = "messages") =>
         /\ outgoingReasoning.present
         /\ outgoingReasoning.type = "enabled"
         /\ outgoingReasoning.budget_tokens =
              (IF reasoningLevel = "low" THEN 4096
               ELSE IF reasoningLevel = "medium" THEN 12288 ELSE 24576)
         /\ outgoingReasoning.effort = "undefined"
    /\ (reasoningLevel \in {"low", "medium", "high"} /\ route = "responses") =>
         /\ outgoingReasoning.present
         /\ outgoingReasoning.effort = reasoningLevel
         /\ outgoingReasoning.summary = "auto"
         /\ outgoingReasoning.type = "undefined"

C21_Witness ==
  /\ ipc = "forwarded"
  /\ route = "messages"
  /\ reasoningLevel = "off"
  /\ clientReasoning = Thinking("enabled", 1024)
  /\ ~outgoingReasoning.present

(***************************************************************************)
(* C22: credential source priority.  With at least one FACTORY_API_KEY     *)
(* configured, getApiKey returns 'Bearer ' + the pool credential at        *)
(* currentKeyIndex, never the client's Authorization header; otherwise,    *)
(* with a refresh token configured, it returns the token of the refresh    *)
(* mechanism (or fails with the refresh); the client's header is returned  *)
(* only when neither is configured, and getApiKey fails when there is no   *)
(* header either.                                                          *)
(***************************************************************************)
KeyReturns == kpc # "returned" /\ kpc' = "returned"

RefreshConfigured == refreshKeyEnv \/ refreshTokenFile

C22_CredentialSourcePriority ==
  [][KeyReturns =>
       /\ PoolSize >= 1 =>
            /\ keyOutcome'.kind = "value"
            /\ keyOutcome'.value = Bearer(factoryApiKeys[currentKeyIndex + 1])
       /\ (PoolSize = 0 /\ RefreshConfigured) =>
            \/ keyOutcome' = [kind |-> "value", value |-> Bearer(currentApiKey')]
            \/ kpc = "refreshing" /\ keyOutcome'.kind = "throw"
       /\ (PoolSize = 0 /\ ~RefreshConfigured) =>
            IF clientAuthorization' # NoHeader
              THEN keyOutcome' = [kind |-> "value", value |-> clientAuthorization']
              ELSE keyOutcome'.kind = "throw"
       /\ (PoolSize >= 1 \/ RefreshConfigured) => keyOutcome'.value # ClientHeader
  ]_vars

C22_Witness ==
  /\ kpc = "returned"
  /\ PoolSize >= 2
  /\ refreshKeyEnv
  /\ refreshTokenFile
  /\ clientAuthorization = ClientHeader
  /\ currentKeyIndex = 1
  /\ keyOutcome.value = Bearer("k2")

(***************************************************************************)
(* C23: a request that fails validation is answered without an upstream    *)
(* send and without touching the rotation state: 400 for a missing model,  *)
(* 404 for an unknown model id, 500 for a missing endpoint or when no      *)
(* credential is available; fetchWithFallback is not invoked, hence        *)
(* neither startNewRotationCycle nor rotateFactoryApiKey.                  *)
(***************************************************************************)
\* fetchWithFallback was not invoked for the request
NotDispatched == attempt = 0 /\ result = NoResult

C23_ValidationFailureSendsNothing ==
  /\ [](reqKind \in {"no_model", "unknown_model", "no_endpoint"} =>
          /\ pc = "done"
          /\ NotDispatched
          /\ nsends = 0
          /\ rotateCalls = 0
          /\ clientStatus = (IF reqKind = "no_model" THEN 400
                              ELSE IF reqKind = "unknown_model" THEN 404 ELSE 500))
  /\ []((pc = "done" /\ reqKind = "ok" /\ NotDispatched) =>
          (clientStatus = 500 /\ nsends = 0 /\ rotateCalls = 0))
  /\ [][(pc \in {"idle", "refreshing"} /\ pc' = "done") =>
          /\ clientStatus' \in {400, 404, 500}
          /\ attempt' = 0 /\ result' = NoResult /\ nsends' = 0
          /\ currentKeyIndex' = currentKeyIndex
          /\ startingKeyIndex' = startingKeyIndex
          /\ hasCompletedFullCycle' = hasCompletedFullCycle]_vars

C23_Witness ==
  /\ pc = "done"
  /\ reqKind = "unknown_model"
  /\ clientStatus = 404
  /\ PoolSize >= 2
  /\ currentKeyIndex = 1
  /\ hasCompletedFullCycle
  /\ nsends = 0

(***************************************************************************)
(* C24: on a pool of N >= 2, after startNewRotationCycle the flag          *)
(* hasCompletedFullCycle becomes true exactly at the rotateFactoryApiKey   *)
(* call that finds (currentKeyIndex + 1) mod N = startingKeyIndex; that    *)
(* call returns false and leaves currentKeyIndex unchanged; from then on   *)
(* hasMoreFactoryKeys returns false, so the dispatcher calls               *)
(* rotateFactoryApiKey no more, until the next startNewRotationCycle.      *)
(***************************************************************************)
WouldReturnToStart == (currentKeyIndex + 1) % PoolSize = startingKeyIndex

\* the followed dispatch calls rotateFactoryApiKey in this step
RotateCalled == rotateCalls' = rotateCalls + 1

C24_CycleCompletesAtStart ==
  /\ [][(authSource = "factory_key" /\ PoolSize >= 2) =>
          /\ RotateCalled =>
               IF WouldReturnToStart
                 THEN /\ hasCompletedFullCycle'
                      /\ currentKeyIndex' = currentKeyIndex
                      /\ rotations' = rotations
                      /\ pc' = "returned"
                 ELSE /\ hasCompletedFullCycle' = hasCompletedFullCycle
                      /\ currentKeyIndex' = (currentKeyIndex + 1) % PoolSize
                      /\ rotations' = rotations + 1
          /\ (~hasCompletedFullCycle /\ hasCompletedFullCycle') =>
               (WouldReturnToStart /\ currentKeyIndex' = currentKeyIndex)
          /\ (hasCompletedFullCycle /\ ~hasCompletedFullCycle') =>
               (startingKeyIndex' = currentKeyIndex /\ currentKeyIndex' = currentKeyIndex)
          /\ hasCompletedFullCycle => ~RotateCalled]_vars
  /\ []((authSource = "factory_key" /\ PoolSize >= 2 /\ hasCompletedFullCycle)
          => ~hasMoreFactoryKeys)

C24_Witness ==
  /\ PoolSize = 3
  /\ hasCompletedFullCycle
  /\ ~interleaved
  /\ pc = "returned"
  /\ startingKeyIndex = 1
  /\ currentKeyIndex = 0
  /\ rotations = 2
  /\ rotateCalls = 3

(***************************************************************************)
(* C25: currentKeyIndex is changed only by a rotateFactoryApiKey call that *)
(* returns true, and then to exactly (old + 1) mod N.                      *)
(* startNewRotationCycle, hasMoreFactoryKeys, getApiKey and                *)
(* getCurrentKeyInfo leave it unchanged, and startNewRotationCycle changes *)
(* only startingKeyIndex (to currentKeyIndex) and hasCompletedFullCycle    *)
(* (to false).                                                             *)
(***************************************************************************)
\* the followed request calls getApiKey(req.headers.authorization)
CallsGetApiKey == pc = "idle" /\ pc' \in {"gotKey", "refreshing"}

\* the followed request enters fetchWithFallback: startNewRotationCycle(),
\* getCurrentKeyInfo(), fetch
EntersFetchWithFallback == pc = "gotKey" /\ pc' = "fetching"

C25_IndexChangedOnlyByRotation ==
  [][/\ currentKeyIndex' # currentKeyIndex =>
          /\ authSource = "factory_key"
          /\ PoolSize >= 2
          /\ currentKeyIndex' = (currentKeyIndex + 1) % PoolSize
          /\ currentKeyIndex' # startingKeyIndex
          /\ ~hasCompletedFullCycle
          /\ startingKeyIndex' = startingKeyIndex
          /\ hasCompletedFullCycle' = hasCompletedFullCycle
     /\ RotateCalled =>
          (currentKeyIndex' # currentKeyIndex <=> rotations' = rotations + 1)
     /\ startingKeyIndex' # startingKeyIndex =>
          /\ startingKeyIndex' = currentKeyIndex
          /\ ~hasCompletedFullCycle'
     /\ EntersFetchWithFallback =>
          /\ startingKeyIndex' = currentKeyIndex
          /\ ~hasCompletedFullCycle'
          /\ UNCHANGED <<authSource, factoryApiKeys, currentApiKey, stale, currentKeyIndex>>
     /\ CallsGetApiKey =>
          UNCHANGED <<currentKeyIndex, startingKeyIndex, hasCompletedFullCycle>>
  ]_vars

C25_Witness ==
  /\ PoolSize = 3
  /\ pc = "gettingKey"
  /\ ~interleaved
  /\ rotations = 1
  /\ startingKeyIndex = 2
  /\ currentKeyIndex = 0
  /\ ~hasCompletedFullCycle

(***************************************************************************)
(* C26 (as claimed): with the pool as credential source, under every       *)
(* interleaving with other dispatches, the first send of a dispatch        *)
(* carries the credential at the index the dispatch records as its         *)
(* startingKeyIndex, and after each successful rotation of the dispatch    *)
(* its next send carries the credential at the index that its own          *)
(* rotateFactoryApiKey call selected.                                      *)
(***************************************************************************)
\* the followed dispatch resumes from `await getApiKey()` and sends again
SendsAfterRotation == pc = "gettingKey" /\ pc' = "fetching"

C27_FallbackSuccessReported ==
  (/\ Finished
   /\ nsends >= 1
   /\ transportFailures = 0
   /\ response.id = nsends
   /\ ~isQuotaOrAuthError(response.status))
  => (/\ result.kind = "response"
      /\ result.response = response
      /\ fallbackReported <=> rotations >= 1)

(***************************************************************************)
(* C28: with dispatches running concurrently on a pool of N >= 2, their    *)
(* calls of startNewRotationCycle and rotateFactoryApiKey and their reads  *)
(* of currentKeyIndex interleave so that the per-dispatch cycle guarantee  *)
(* is lost: a dispatch can send a credential it has already tried, or      *)
(* return a quota/auth failure without having tried every credential.      *)
(* The guarantee is lost in no other way: a dispatch that no other request *)
(* interleaves with never resends and gives up only after the whole pool.  *)
(***************************************************************************)
ReturnedKeyFailure ==
  /\ Finished
  /\ result.kind = "response"
  /\ isQuotaOrAuthError(result.response.status)

C28_GuaranteeLostOnlyByInterleaving ==
  (authSource = "factory_key" /\ PoolSize >= 2 /\ ~interleaved) =>
    /\ ~resent
    /\ ReturnedKeyFailure => tried = PoolHeaders

\* the race: the dispatch has sent one credential twice and has returned
\* the quota/auth failure with a credential of the pool never tried
C28_Witness ==
  /\ authSource = "factory_key"
  /\ PoolSize >= 2
  /\ interleaved
  /\ resent
  /\ ReturnedKeyFailure
  /\ tried # PoolHeaders

(***************************************************************************)
(* C29: the rotation position survives across dispatches and is never      *)
(* reset to the primary credential.  When a dispatch ends, by a returned    *)
(* response or by an exception, currentKeyIndex is the index of the last   *)
(* credential the dispatch selected (no other request having moved it);    *)
(* nothing the request does afterwards moves it, and the next dispatch     *)
(* starts its cycle from the index it finds.                               *)
(***************************************************************************)
\* fetchWithFallback returns or throws in this step
DispatchEnds == pc # "returned" /\ pc' = "returned"

C30_AnsweredDispatchReturnsResponse ==
  (Finished /\ nsends >= 1 /\ transportFailures = 0 /\ result.error # "TypeError") =>
    /\ result.error # "Request failed after all attempts"
    /\ result.kind = "response"

(***************************************************************************)
(* Properties of the tool-call accumulator                                 *)
(***************************************************************************)
\* a chunk that announces a tool call: it carries the call id
Announces(f) == f.kind = "tool_call" /\ f.id # "absent"
AnnouncingChunks == SelectSeq(yielded, Announces)

\* C31 (as claimed): within one stream the tool-call indexes are allocated
\* as 0, 1, 2, ... in the order the calls are announced, no index is given
\* twice, and the index stored in an accumulator entry never changes once it
\* is assigned.
C31_IndexesAssignedOnce ==
  /\ [](\A i \in 1..Len(AnnouncingChunks) : AnnouncingChunks[i].index = i - 1)
  /\ [](tr.toolCallIndex = Len(AnnouncingChunks))
  /\ [][\A itemId \in DOMAIN tr.toolCalls :
          /\ itemId \in DOMAIN tr'.toolCalls
          /\ tr'.toolCalls[itemId].index = tr.toolCalls[itemId].index]_vars

\* C32 (as claimed): within one stream a vendor function-call item id is
\* given at most one tool-call index: an item announced by a start event
\* and later delivered whole, or announced twice, is a single tool call of
\* the output.
C32_OneIndexPerItem ==
  \A i, j \in 1..Len(AnnouncingChunks) :
    AnnouncingChunks[i].id = AnnouncingChunks[j].id
      => AnnouncingChunks[i].index = AnnouncingChunks[j].index

\* C33 (as claimed): when a tool-call chunk was emitted, by a start event or
\* by a whole-call event, and the stream then completes with the vendor
\* status 'completed', the final chunk's finish_reason is 'tool_calls'.
C33_ToolCallsFinishReason ==
  (/\ JustCompleted
   /\ VendorStatus(Last(EventsReceived).data) = "completed"
   /\ ToolCallChunks # <<>>)
  => (/\ Len(yielded) >= 2
      /\ yielded[Len(yielded) - 1].finish_reason = "tool_calls")

(***************************************************************************)
(* C34 (as claimed): a chunk emitted for an arguments-delta event carries  *)
(* the tool-call index and the delta and nothing else of the call; the     *)
(* arguments of the accumulator entry of an item id are the deltas         *)
(* received for that id since it was announced, joined in order; a delta   *)
(* for an id that has no entry emits nothing and changes no state.         *)
(***************************************************************************)
ArgumentsDeltaEvent == "response.function_call_arguments.delta"

\* the function-call start event of item `itemId`
AnnouncesItem(e, itemId) ==
  /\ e.type = "response.output_item.added"
  /\ e.data.item.type = "function_call"
  /\ e.data.item.id = itemId

\* the deltas the events bring for `itemId` once it has been announced
RECURSIVE DeltasFor(_, _, _)
DeltasFor(events, itemId, announced) ==
  IF events = <<>> THEN <<>>
  ELSE LET e == Head(events) IN
       IF AnnouncesItem(e, itemId) THEN DeltasFor(Tail(events), itemId, TRUE)
       ELSE IF e.type = ArgumentsDeltaEvent /\ e.data.item_id = itemId /\ announced
         THEN e.data.delta \o DeltasFor(Tail(events), itemId, announced)
       ELSE DeltasFor(Tail(events), itemId, announced)

\* the chunks of the output that continue a tool call
Continues(f) == f.kind = "tool_call" /\ f.id = "absent"
ContinuationChunks == SelectSeq(yielded, Continues)

\* the delta events received for an item that had been announced before
RECURSIVE AcceptedDeltas(_, _)
AcceptedDeltas(events, known) ==
  IF events = <<>> THEN <<>>
  ELSE LET e == Head(events) IN
       IF e.type = "response.output_item.added" /\ e.data.item.type = "function_call"
         THEN AcceptedDeltas(Tail(events), known \cup {e.data.item.id})
       ELSE IF e.type = ArgumentsDeltaEvent /\ e.data.item_id \in known
         THEN <<e.data.delta>> \o AcceptedDeltas(Tail(events), known)
       ELSE AcceptedDeltas(Tail(events), known)

\* the payloads of the arguments-delta events
DeltaPayloads ==
  {JsonObjects["{item_id:X,delta:p"], JsonObjects["{item_id:X,delta:q"], EmptyObject}

C34_ArgumentsDeltaChunks ==
  spc = "streaming" =>
    /\ Len(ContinuationChunks) = Len(AcceptedDeltas(EventsReceived, {}))
    /\ \A i \in 1..Len(ContinuationChunks) :
         /\ ContinuationChunks[i].arguments = AcceptedDeltas(EventsReceived, {})[i]
         /\ ContinuationChunks[i].index \in 0..(tr.toolCallIndex - 1)
         /\ ContinuationChunks[i].type = "absent"
         /\ ContinuationChunks[i].name = "absent"
         /\ ContinuationChunks[i].role = "absent"
    /\ \A itemId \in DOMAIN tr.toolCalls :
         tr.toolCalls[itemId].arguments = DeltasFor(EventsReceived, itemId, FALSE)
    /\ \A d \in DeltaPayloads :
         d.item_id \notin DOMAIN tr.toolCalls
           => transformEvent(tr, ArgumentsDeltaEvent, d) = Emit(tr, <<>>)

(***************************************************************************)
(* C35: an event label applies to the next data line and to that line      *)
(* only; a data line with no label pending, a blank line and a line that   *)
(* is neither an event nor a data line emit nothing and change nothing of  *)
(* the transformer; an event type outside the handled vocabulary emits     *)
(* nothing and leaves the accumulator and the completion flag as they were.*)
(***************************************************************************)
\* the event types transformEvent has a branch for
HandledVocabulary ==
  {"response.created", "response.in_progress", "response.content_part.added",
   "response.output_item.added", "response.function_call_arguments.delta",
   "response.function_call_arguments.done", "response.output_item.done",
   "response.done", "response.completed"} \cup TextDeltaEvents \cup TextDoneEvents

Handled(e) == e.type \in HandledVocabulary

\* the label left pending by the lines: set by an event line, cleared by the
\* data line it applies to, untouched by every other line
RECURSIVE PendingLabel(_, _)
PendingLabel(lines, label) ==
  IF lines = <<>> THEN label
  ELSE LET line == Head(lines) IN
       IF Len(line) >= 1 /\ line[1] = "event:"
         THEN PendingLabel(Tail(lines), EventValue(Tail(line)))
       ELSE IF Len(line) >= 1 /\ line[1] = "data:"
         THEN PendingLabel(Tail(lines), "")
       ELSE PendingLabel(Tail(lines), label)

\* the transformer a sequence of events leaves
RECURSIVE StateAfter(_, _)
StateAfter(t, events) ==
  IF events = <<>> THEN t
  ELSE StateAfter(transformEvent(t, Head(events).type, Head(events).data).tr, Tail(events))

LinesReceived == SplitLines(decoded, <<>>, <<>>).lines

C35_EventDataPairing ==
  spc = "streaming" =>
    LET handled == SelectSeq(EventsReceived, Handled)
        after == StateAfter(NewTransformer, handled)
    IN /\ tr.currentEvent = PendingLabel(LinesReceived, "")
       /\ yielded = ImageOfEvents(NewTransformer, handled)
       /\ tr.toolCalls = after.toolCalls
       /\ tr.toolCallIndex = after.toolCallIndex
       /\ tr.isDone = after.isDone

\* a start event whose data line comes after a comment line, then an event
\* outside the vocabulary with its data line, then a data line with no label
C35_Witness ==
  /\ spc = "streaming"
  /\ LinesReceived = << <<"event:", "response.output_item.added">>, <<":">>,
                        <<"data:", "{item:fc", "}">>,
                        <<"event:", "response.queued">>, <<"data:", "{item:fc", "}">>,
                        <<"data:", "{item:fc", "}">> >>
  /\ Len(yielded) = 1
  /\ yielded[1].kind = "tool_call"
  /\ tr.currentEvent = ""
  /\ tr.toolCallIndex = 1

(***************************************************************************)
(* C36 (as claimed): every event/data pair upstream delivered before the   *)
(* stream ended is transformed, also the pair whose data line is the last  *)
(* line of the stream and has no newline after it; a completion event      *)
(* delivered that way decides the finish reason, not the synthesized       *)
(* 'stop'.                                                                 *)
(***************************************************************************)
\* the lines delivered, the last one with or without its newline
AllLinesDelivered ==
  LET split == SplitLines(decoded, <<>>, <<>>) IN
  IF split.rest = <<>> THEN split.lines ELSE Append(split.lines, split.rest)

EventsDelivered == VendorEvents(AllLinesDelivered, "")

\* upstream ended after a whole line, or after a line that lacks its newline only
EndedAfterWholeLine == upcoming \in {<<>>, <<NL>>, <<NL, NL>>}

C36_LastPairTransformed ==
  (spc = "finished" /\ failure = "none" /\ EndedAfterWholeLine) =>
    yielded = ImageOfEvents(NewTransformer, EventsDelivered)
                \o EndOfStreamFrames(StateAfter(NewTransformer, EventsDelivered))

(***************************************************************************)
(* Properties of the refresh mechanism                                     *)
(***************************************************************************)
\* C37 (as claimed): when several requests call getApiKey while the token
\* is stale, the refresh is invoked once for that stale period: no two
\* refresh calls are in flight at the same time with the same refresh token.
C37_OneRefreshPerStalePeriod ==
  submittedToken # NoToken => otherRefresh # submittedToken

(***************************************************************************)
(* C38: when refreshApiKey fails, currentApiKey, currentRefreshToken and   *)
(* lastRefreshTime keep their values, the error leaves getApiKey and the   *)
(* handler answers 500 without sending anything upstream; the request goes *)
(* on to dispatch only with the token of a refresh that succeeded.         *)
(***************************************************************************)
\* the await of refreshApiKey ends for the followed request
RefreshEnds == pc = "refreshing" /\ pc' # "refreshing"

C38_FailedRefreshChangesNothing ==
  [][RefreshEnds =>
       \/ /\ pc' = "gotKey"
          /\ ~stale'
          /\ currentRefreshToken' \in RefreshTokens
          /\ authHeader' = Bearer(currentApiKey')
          /\ clientStatus' = 0
       \/ /\ pc' = "done"
          /\ clientStatus' = 500
          /\ currentApiKey' = currentApiKey
          /\ currentRefreshToken' = currentRefreshToken
          /\ stale' = stale
          /\ nsends = 0 /\ nsends' = 0
          /\ authHeader' = NoHeader
  ]_vars

\* a valid request found the token stale, its refresh failed: 500, the stale
\* token and the refresh token are still there, nothing was sent
C38_Witness ==
  /\ authSource = "env"
  /\ reqKind = "ok"
  /\ pc = "done"
  /\ clientStatus = 500
  /\ stale
  /\ currentApiKey = "tok"
  /\ currentRefreshToken = "r1"
  /\ submittedToken = NoToken
  /\ nsends = 0

====
